---------------------------- MODULE Spec2Model ----------------------------
(***************************************************************************)
(* Model of the invoice QC validation engine                               *)
(* (src/invoice_qc/validator.py).                                          *)
(*                                                                         *)
(* Conventions.                                                            *)
(*  - A Python value that may be None is a sequence of length at most 1:   *)
(*    None is <<>> and the value x is <<x>>.                               *)
(*  - A dict is a function from the set of its keys; d.get(k) is Get(d,k). *)
(*  - Monetary amounts are floats in the source; here they are integers    *)
(*    counted in hundredths (100.0 is 10000), so that 0.005 is the ratio   *)
(*    TOLERANCE_FACTOR / 1000. The arithmetic is exact: the rounding of    *)
(*    binary floats is not modelled.                                       *)
(*  - seller/supplier names are sequences of one-character strings (the    *)
(*    id generator works on characters); every other string is atomic.     *)
(*  - Python list indices are 0-based; the sequences here are 1-based, so  *)
(*    index i of the model is index i-1 of the source.                     *)
(***************************************************************************)
EXTENDS Integers, Sequences, FiniteSets, TLC

VARIABLES
    pc,        \* position of the caller: "call" before a call, then which call returned
    invoices,  \* the batch given to validate_batch
    invoice,   \* the record given to validate_invoice
    value1,    \* first argument of _is_within_tolerance
    value2,    \* second argument of _is_within_tolerance
    within,    \* what _is_within_tolerance returned (None before the call)
    result,    \* what validate_invoice / validate_batch returned (None before the call)
    fields,    \* the record given to normalize_invoice
    today,     \* the wall-clock date, which dateutil reads for the parts a string leaves out
    previous,  \* what an earlier call of validate_invoice on the same record returned
    files,     \* the files uploaded to the API or the UI
    merged,    \* merged_invoices of the UI (None before the merge)
    cli,       \* the run of the CLI validate command: input file, report file, exit code
    heap,      \* the objects of the interpreter, by address
    calls      \* the calls of validate_batch in progress, by caller

vars ==
    <<pc, invoices, invoice, value1, value2, within, result, fields, today, previous,
      files, merged, cli, heap, calls>>

---------------------------------------------------------------------------
(* Python values *)

None == <<>>

Some(x) == <<x>>

Get(d, k) == IF k \in DOMAIN d THEN d[k] ELSE None

\* bool(v) for a str-or-None, a number-or-None, a list-or-None
TruthyStr(v) == v # None /\ v[1] # ""

TruthyNum(v) == v # None /\ v[1] # 0

TruthyList(v) == v # None /\ v[1] # <<>>

\* Python's  a or b
OrStr(a, b) == IF TruthyStr(a) THEN a ELSE b

OrNum(a, b) == IF TruthyNum(a) THEN a ELSE b

OrList(a, b) == IF TruthyList(a) THEN a ELSE b

Abs(x) == IF x < 0 THEN -x ELSE x

Max(x, y) == IF x >= y THEN x ELSE y

---------------------------------------------------------------------------
(* Constants of validator.py *)

\* TOLERANCE_FACTOR = 0.005, in thousandths
TOLERANCE_FACTOR == 5

VALID_CURRENCIES ==
    {"EUR", "USD", "INR", "GBP", "JPY", "CAD", "AUD", "CHF", "CNY",
     "SGD", "HKD", "NZD", "MXN", "BRL", "ZAR"}

---------------------------------------------------------------------------
(* Strings *)

LowerCase ==
    <<"a", "b", "c", "d", "e", "f", "g", "h", "i", "j", "k", "l", "m",
      "n", "o", "p", "q", "r", "s", "t", "u", "v", "w", "x", "y", "z">>

UpperCase ==
    <<"A", "B", "C", "D", "E", "F", "G", "H", "I", "J", "K", "L", "M",
      "N", "O", "P", "Q", "R", "S", "T", "U", "V", "W", "X", "Y", "Z">>

Digits == {"0", "1", "2", "3", "4", "5", "6", "7", "8", "9"}

\* str.upper() on one ASCII character
UpperChar(c) ==
    IF \E i \in 1..26 : LowerCase[i] = c
    THEN UpperCase[CHOOSE i \in 1..26 : LowerCase[i] = c]
    ELSE c

\* c.isalnum() on one ASCII character
IsAlnum(c) ==
    \/ \E i \in 1..26 : LowerCase[i] = c \/ UpperCase[i] = c
    \/ c \in Digits

\* str.upper() on the currency codes the model uses
UpperStr(s) ==
    CASE s = "eur" -> "EUR"
      [] s = "usd" -> "USD"
      [] s = "xyz" -> "XYZ"
      [] s = "Eur" -> "EUR"
      [] s = "jpy" -> "JPY"
      [] OTHER -> s

\* ''.join(c if c.isalnum() or c in '-_' else '_' for c in supplier.upper()),
\* then '_'.join(supplier_norm.split()): after the first line no whitespace is
\* left, so split() returns the whole (non-empty) string as its one word.
NormalizeSupplier(supplier) ==
    [i \in 1..Len(supplier) |->
        LET c == UpperChar(supplier[i])
        IN  IF IsAlnum(c) \/ c \in {"-", "_"} THEN c ELSE "_"]

UNKNOWN == <<"U", "N", "K", "N", "O", "W", "N">>

TruthyName(v) == v # None /\ v[1] # <<>>

\* the f-string "{supplier_norm}_{invoice_num}_{invoice_date}": the id is the
\* concatenation of the fragments of the returned sequence
_generate_invoice_id(inv) ==
    LET supplier ==
            IF TruthyName(Get(inv, "supplier_name")) THEN Get(inv, "supplier_name")[1]
            ELSE IF TruthyName(Get(inv, "seller_name")) THEN Get(inv, "seller_name")[1]
            ELSE UNKNOWN
        invoice_num == OrStr(Get(inv, "invoice_number"), Some("UNKNOWN"))[1]
        invoice_date == OrStr(Get(inv, "invoice_date"), Some("UNKNOWN"))[1]
    IN  NormalizeSupplier(supplier) \o <<"_", invoice_num, "_", invoice_date>>

---------------------------------------------------------------------------
(* Dates: dateutil's parser on the date strings the model uses *)

\* a naive datetime (no tzinfo), and one with tzinfo=tzutc()
Naive(y, m, d, hh, mi) ==
    [year |-> y, month |-> m, day |-> d, hour |-> hh, minute |-> mi, aware |-> FALSE]

Aware(y, m, d, hh, mi) ==
    [year |-> y, month |-> m, day |-> d, hour |-> hh, minute |-> mi, aware |-> TRUE]

\* date_parser.parse(s, fuzzy=False): the datetime, or None where it raises
\* ValueError. A string without a time of day parses to midnight; without
\* dayfirst, 01/03/2024 is the 3rd of January; a trailing Z gives an aware value.
\* The parts a string leaves out are taken from the default, which is today at
\* midnight: the day for "March 2024", the year for "15 March".
DateutilParse(s) ==
    CASE s = "2024-01-01"           -> Some(Naive(2024, 1, 1, 0, 0))
      [] s = "2024-02-01"           -> Some(Naive(2024, 2, 1, 0, 0))
      [] s = "2024-03-01"           -> Some(Naive(2024, 3, 1, 0, 0))
      [] s = "2024-03-15"           -> Some(Naive(2024, 3, 15, 0, 0))
      [] s = "01/03/2024"           -> Some(Naive(2024, 1, 3, 0, 0))
      [] s = "1 March 2024"         -> Some(Naive(2024, 3, 1, 0, 0))
      [] s = "2024-03-01 08:00"     -> Some(Naive(2024, 3, 1, 8, 0))
      [] s = "2024-03-01 17:30"     -> Some(Naive(2024, 3, 1, 17, 30))
      [] s = "2024-03-01T10:00:00Z" -> Some(Aware(2024, 3, 1, 10, 0))
      [] s = "March 2024"           -> Some(Naive(2024, 3, today.day, 0, 0))
      [] s = "15 March"             -> Some(Naive(today.year, 3, 15, 0, 0))
      [] OTHER                      -> None

_parse_date(date_str) ==
    IF ~TruthyStr(date_str) THEN None ELSE DateutilParse(date_str[1])

\* datetime ordering is lexicographic on (year, month, day, hour, minute)
Instant(dt) ==
    (((dt.year * 12 + dt.month) * 31 + dt.day) * 24 + dt.hour) * 60 + dt.minute

\* datetime.__lt__ raises TypeError for one naive and one aware operand
DatetimeLtRaises(a, b) == a.aware # b.aware

DatetimeLt(a, b) == Instant(a) < Instant(b)

---------------------------------------------------------------------------
(* Single-invoice rules *)

\* variant: a strict comparison on line 66
_is_within_tolerance_Strict(v1, v2) ==
    IF v1 = None \/ v2 = None THEN FALSE
    ELSE LET diff == Abs(v1[1] - v2[1])
             max_val == Max(Abs(v1[1]), Abs(v2[1]))
         IN  IF max_val = 0 THEN diff = 0
             ELSE diff * 1000 < max_val * TOLERANCE_FACTOR

_is_within_tolerance(v1, v2) ==
    IF v1 = None \/ v2 = None THEN FALSE
    ELSE LET diff == Abs(v1[1] - v2[1])
             max_val == Max(Abs(v1[1]), Abs(v2[1]))
         IN  IF max_val = 0 THEN diff = 0
             ELSE diff * 1000 <= max_val * TOLERANCE_FACTOR

\* variant: the function returns at its first missing field
_validate_missing_fields_FirstOnly(inv) ==
    IF ~TruthyStr(Get(inv, "invoice_number")) THEN <<"missing_field:invoice_number">>
    ELSE IF ~TruthyStr(Get(inv, "invoice_date")) THEN <<"missing_field:invoice_date">>
    ELSE IF ~TruthyName(Get(inv, "seller_name")) /\ ~TruthyName(Get(inv, "supplier_name"))
         THEN <<"missing_field:seller_name">>
    ELSE IF ~TruthyStr(Get(inv, "buyer_name")) THEN <<"missing_field:buyer_name">>
    ELSE <<>>

_validate_missing_fields(inv) ==
    (IF ~TruthyStr(Get(inv, "invoice_number"))
        THEN <<"missing_field:invoice_number">> ELSE <<>>)
    \o (IF ~TruthyStr(Get(inv, "invoice_date"))
        THEN <<"missing_field:invoice_date">> ELSE <<>>)
    \o (IF ~TruthyName(Get(inv, "seller_name")) /\ ~TruthyName(Get(inv, "supplier_name"))
        THEN <<"missing_field:seller_name">> ELSE <<>>)
    \o (IF ~TruthyStr(Get(inv, "buyer_name"))
        THEN <<"missing_field:buyer_name">> ELSE <<>>)

\* variant: line 91 does not test that invoice_date is there
_validate_format_MissingToo(inv) ==
    LET invoice_date == Get(inv, "invoice_date")
    IN  IF ~TruthyStr(invoice_date) \/ _parse_date(invoice_date) = None
        THEN <<"invalid_format:invoice_date">> ELSE <<>>

_validate_format(inv) ==
    LET invoice_date == Get(inv, "invoice_date")
    IN  IF TruthyStr(invoice_date) /\ _parse_date(invoice_date) = None
        THEN <<"invalid_format:invoice_date">> ELSE <<>>

\* variant: line 104 compares the currency as written
_validate_currency_CaseSensitive(inv) ==
    LET currency == Get(inv, "currency")
    IN  IF TruthyStr(currency) /\ currency[1] \notin VALID_CURRENCIES
        THEN <<"invalid_value:currency">> ELSE <<>>

_validate_currency(inv) ==
    LET currency == Get(inv, "currency")
    IN  IF TruthyStr(currency) /\ UpperStr(currency[1]) \notin VALID_CURRENCIES
        THEN <<"invalid_value:currency">> ELSE <<>>

\* the loop of lines 128-133: line_sum after the items of line_items
RECURSIVE LineSum(_)
LineSum(line_items) ==
    IF line_items = <<>> THEN 0
    ELSE LET n == Len(line_items)
             item == line_items[n]
             line_total == OrNum(OrNum(Get(item, "line_total"), Get(item, "amount")),
                                 Some(0))
         IN  LineSum(SubSeq(line_items, 1, n - 1))
             + (IF TruthyNum(line_total) THEN line_total[1] ELSE 0)

NetTotal(inv) == OrNum(Get(inv, "net_total"), Get(inv, "subtotal"))

GrossTotal(inv) == OrNum(Get(inv, "gross_total"), Get(inv, "total_amount"))

TotalsRule(inv) ==
    LET net_total == NetTotal(inv)
        tax_amount == Get(inv, "tax_amount")
        gross_total == GrossTotal(inv)
    IN  IF net_total # None /\ tax_amount # None /\ gross_total # None
           /\ ~_is_within_tolerance(gross_total, Some(net_total[1] + tax_amount[1]))
        THEN <<"business_rule:totals_mismatch">> ELSE <<>>

LinesumRule(inv) ==
    LET net_total == NetTotal(inv)
        line_items == Get(inv, "line_items")
    IN  IF TruthyList(line_items) /\ net_total # None
           /\ LineSum(line_items[1]) > 0
           /\ ~_is_within_tolerance(net_total, Some(LineSum(line_items[1])))
        THEN <<"business_rule:linesum_mismatch">> ELSE <<>>

\* whether lines 142-148 reach the comparison of the two parsed datetimes
DatesCompared(inv) ==
    /\ TruthyStr(Get(inv, "invoice_date"))
    /\ TruthyStr(Get(inv, "due_date"))
    /\ _parse_date(Get(inv, "invoice_date")) # None
    /\ _parse_date(Get(inv, "due_date")) # None

DueDateRule(inv) ==
    IF DatesCompared(inv)
       /\ DatetimeLt(_parse_date(Get(inv, "due_date"))[1],
                     _parse_date(Get(inv, "invoice_date"))[1])
    THEN <<"business_rule:due_before_invoice">> ELSE <<>>

_validate_business_rules(inv) == TotalsRule(inv) \o LinesumRule(inv) \o DueDateRule(inv)

\* the TypeError of parsed_due_date < parsed_invoice_date, which nothing catches
BusinessRulesRaise(inv) ==
    /\ DatesCompared(inv)
    /\ DatetimeLtRaises(_parse_date(Get(inv, "due_date"))[1],
                        _parse_date(Get(inv, "invoice_date"))[1])

_validate_sanity_checks(inv) ==
    LET gross_total == GrossTotal(inv)
    IN  IF gross_total # None /\ gross_total[1] < 0
        THEN <<"sanity:negative_gross">> ELSE <<>>

\* what a call leaves when an exception escapes it
Raised == [exception |-> "TypeError"]

\* variant: the later families run only on a record that misses no field
validate_invoice_ShortCircuit(inv) ==
    IF BusinessRulesRaise(inv) THEN Raised
    ELSE LET invoice_id == IF TruthyStr(Get(inv, "invoice_id")) THEN <<Get(inv, "invoice_id")[1]>>
                           ELSE _generate_invoice_id(inv)
             missing == _validate_missing_fields(inv)
             errors == IF missing # <<>> THEN missing
                       ELSE _validate_format(inv) \o _validate_currency(inv)
                            \o _validate_business_rules(inv) \o _validate_sanity_checks(inv)
         IN  [invoice_id |-> invoice_id, is_valid |-> (Len(errors) = 0), errors |-> errors]

validate_invoice(inv) ==
    IF BusinessRulesRaise(inv) THEN Raised
    ELSE LET invoice_id ==
                 IF TruthyStr(Get(inv, "invoice_id")) THEN <<Get(inv, "invoice_id")[1]>>
                 ELSE _generate_invoice_id(inv)
             errors == _validate_missing_fields(inv)
                       \o _validate_format(inv)
                       \o _validate_currency(inv)
                       \o _validate_business_rules(inv)
                       \o _validate_sanity_checks(inv)
         IN  [invoice_id |-> invoice_id, is_valid |-> (Len(errors) = 0), errors |-> errors]

---------------------------------------------------------------------------
(* Batch rules *)

EmptyDict == [k \in {} |-> None]

\* d[k] = v
Put(d, k, v) == [x \in DOMAIN d \cup {k} |-> IF x = k THEN v ELSE d[x]]

\* the key of lines 175-180 and 246-251; str() of a str is that str
DuplicateKey(inv) ==
    LET invoice_number == Get(inv, "invoice_number")
        supplier_tax_id ==
            OrStr(OrStr(Get(inv, "supplier_tax_id"), Get(inv, "seller_tax_id")), Some(""))
        invoice_date == OrStr(Get(inv, "invoice_date"), Some(""))
    IN  <<invoice_number[1], supplier_tax_id[1], invoice_date[1]>>

\* seen and duplicates after the loop of _detect_duplicates has run over the
\* first n records
RECURSIVE DetectLoop(_, _)
DetectLoop(invs, n) ==
    IF n = 0 THEN [seen |-> EmptyDict, duplicates |-> EmptyDict]
    ELSE LET prev == DetectLoop(invs, n - 1)
             seen == prev.seen
             duplicates == prev.duplicates
         IN  IF ~TruthyStr(Get(invs[n], "invoice_number")) THEN prev
             ELSE LET key == DuplicateKey(invs[n])
                  IN  IF key \in DOMAIN seen
                      THEN LET started == IF key \notin DOMAIN duplicates
                                          THEN Put(duplicates, key, <<seen[key]>>)
                                          ELSE duplicates
                           IN  [seen |-> seen,
                                duplicates |-> Put(started, key, Append(started[key], n))]
                      ELSE [seen |-> Put(seen, key, n), duplicates |-> duplicates]

\* variant: a key is reported only while exactly two records share it
_detect_duplicates_PairsOnly(invs) ==
    LET duplicates == DetectLoop(invs, Len(invs)).duplicates
    IN  [key \in {k \in DOMAIN duplicates : Len(duplicates[k]) = 2} |-> duplicates[key]]

\* variant: line 184 starts the list empty, so the first occurrence is left out
_detect_duplicates_SecondOnly(invs) ==
    LET duplicates == DetectLoop(invs, Len(invs)).duplicates
    IN  [key \in DOMAIN duplicates |-> Tail(duplicates[key])]

_detect_duplicates(invs) == DetectLoop(invs, Len(invs)).duplicates

\* idx in duplicate_map[key]
InList(x, list) == \E j \in 1..Len(list) : list[j] = x

\* variant: line 253 runs once for every other record of the group
BatchEntry_FlagPerOccurrence(invs, duplicate_map, idx) ==
    LET inv == invs[idx]
        res == validate_invoice(inv)
    IN  IF TruthyStr(Get(inv, "invoice_number"))
           /\ DuplicateKey(inv) \in DOMAIN duplicate_map
           /\ InList(idx, duplicate_map[DuplicateKey(inv)])
        THEN [invoice_id |-> res.invoice_id,
              is_valid |-> FALSE,
              errors |-> res.errors
                         \o [j \in 1..(Len(duplicate_map[DuplicateKey(inv)]) - 1) |->
                                "anomaly:duplicate_invoice"]]
        ELSE res

\* variant: line 252 leaves out the first index of the list
BatchEntry_FlagLater(invs, duplicate_map, idx) ==
    LET inv == invs[idx]
        res == validate_invoice(inv)
    IN  IF TruthyStr(Get(inv, "invoice_number"))
           /\ DuplicateKey(inv) \in DOMAIN duplicate_map
           /\ InList(idx, Tail(duplicate_map[DuplicateKey(inv)]))
        THEN [invoice_id |-> res.invoice_id,
              is_valid |-> FALSE,
              errors |-> Append(res.errors, "anomaly:duplicate_invoice")]
        ELSE res

\* variant: line 253 assigns the list instead of appending to it
BatchEntry_ReplacesErrors(invs, duplicate_map, idx) ==
    LET inv == invs[idx]
        res == validate_invoice(inv)
    IN  IF TruthyStr(Get(inv, "invoice_number"))
           /\ DuplicateKey(inv) \in DOMAIN duplicate_map
           /\ InList(idx, duplicate_map[DuplicateKey(inv)])
        THEN [invoice_id |-> res.invoice_id,
              is_valid |-> FALSE,
              errors |-> <<"anomaly:duplicate_invoice">>]
        ELSE res

\* variant: line 254 is missing
BatchEntry_KeepsValid(invs, duplicate_map, idx) ==
    LET inv == invs[idx]
        res == validate_invoice(inv)
    IN  IF TruthyStr(Get(inv, "invoice_number"))
           /\ DuplicateKey(inv) \in DOMAIN duplicate_map
           /\ InList(idx, duplicate_map[DuplicateKey(inv)])
        THEN [invoice_id |-> res.invoice_id,
              is_valid |-> res.is_valid,
              errors |-> Append(res.errors, "anomaly:duplicate_invoice")]
        ELSE res

\* the body of the loop of lines 242-256 for the record at idx
BatchEntry(invs, duplicate_map, idx) ==
    LET inv == invs[idx]
        res == validate_invoice(inv)
    IN  IF TruthyStr(Get(inv, "invoice_number"))
           /\ DuplicateKey(inv) \in DOMAIN duplicate_map
           /\ InList(idx, duplicate_map[DuplicateKey(inv)])
        THEN [invoice_id |-> res.invoice_id,
              is_valid |-> FALSE,
              errors |-> Append(res.errors, "anomaly:duplicate_invoice")]
        ELSE res

\* variant: line 267 stores 1 instead of adding 1
RECURSIVE CountResult_SetsOne(_, _)
CountResult_SetsOne(counts, errors) ==
    IF errors = <<>> THEN counts
    ELSE CountResult_SetsOne(Put(counts, Head(errors), 1), Tail(errors))

\* the loop of lines 266-267 over the errors of one result
RECURSIVE CountResult(_, _)
CountResult(counts, errors) ==
    IF errors = <<>> THEN counts
    ELSE LET error == Head(errors)
             old == IF error \in DOMAIN counts THEN counts[error] ELSE 0
         IN  CountResult(Put(counts, error, old + 1), Tail(errors))

\* error_counts after the loop of lines 265-267 has run over the first n results
RECURSIVE ErrorCounts(_, _)
ErrorCounts(per_invoice, n) ==
    IF n = 0 THEN EmptyDict
    ELSE CountResult(ErrorCounts(per_invoice, n - 1), per_invoice[n].errors)

\* variant: valid_count is taken from the single-invoice results, before the
\* duplicate flag is applied
Summary_CountsBeforeFlag(invs, per_invoice, duplicate_map) ==
    LET total == Len(invs)
        valid_count == Cardinality({i \in 1..Len(invs) : validate_invoice(invs[i]).is_valid})
        invalid_count == total - valid_count
    IN  [total_invoices |-> total,
         valid_count |-> valid_count,
         invalid_count |-> invalid_count,
         error_counts |-> ErrorCounts(per_invoice, Len(per_invoice)),
         duplicate_groups |-> Cardinality(DOMAIN duplicate_map)]

\* variant: duplicate_groups counts the duplicate records, not the keys
Summary_CountsRecords(invs, per_invoice, duplicate_map) ==
    LET total == Len(invs)
        valid_count == Cardinality({i \in 1..Len(per_invoice) : per_invoice[i].is_valid})
        invalid_count == total - valid_count
    IN  [total_invoices |-> total,
         valid_count |-> valid_count,
         invalid_count |-> invalid_count,
         error_counts |-> ErrorCounts(per_invoice, Len(per_invoice)),
         duplicate_groups |->
             Cardinality({i \in 1..Len(invs) :
                            \E key \in DOMAIN duplicate_map : InList(i, duplicate_map[key])})]

\* lines 258-275
Summary(invs, per_invoice, duplicate_map) ==
    LET total == Len(invs)
        valid_count == Cardinality({i \in 1..Len(per_invoice) : per_invoice[i].is_valid})
        invalid_count == total - valid_count
    IN  [total_invoices |-> total,
         valid_count |-> valid_count,
         invalid_count |-> invalid_count,
         error_counts |-> ErrorCounts(per_invoice, Len(per_invoice)),
         duplicate_groups |-> Cardinality(DOMAIN duplicate_map)]

validate_batch(invs) ==
    IF \E i \in 1..Len(invs) : BusinessRulesRaise(invs[i]) THEN Raised
    ELSE LET duplicate_map == _detect_duplicates(invs)
             per_invoice == [i \in 1..Len(invs) |-> BatchEntry(invs, duplicate_map, i)]
         IN  [per_invoice |-> per_invoice,
              summary |-> Summary(invs, per_invoice, duplicate_map)]

---------------------------------------------------------------------------
(* The normalizer *)

\* Python's  a or b  for a name-or-None
OrName(a, b) == IF TruthyName(a) THEN a ELSE b

\* the out dict of lines 18-56
NormalizeFields(raw, seller, net, gross, line_items) ==
    LET supplier_tax_id == OrStr(Get(raw, "supplier_tax_id"), Get(raw, "seller_tax_id"))
    IN  [invoice_number |-> OrStr(Get(raw, "invoice_number"), Get(raw, "invoice_id")),
         invoice_date |-> Get(raw, "invoice_date"),
         due_date |-> Get(raw, "due_date"),
         seller_name |-> seller,
         supplier_name |-> seller,
         buyer_name |-> OrStr(Get(raw, "buyer_name"), Get(raw, "buyer")),
         supplier_tax_id |-> supplier_tax_id,
         seller_tax_id |-> supplier_tax_id,
         buyer_tax_id |-> Get(raw, "buyer_tax_id"),
         currency |-> Get(raw, "currency"),
         net_total |-> net,
         subtotal |-> net,
         tax_amount |-> OrNum(Get(raw, "tax_amount"), Get(raw, "tax")),
         gross_total |-> gross,
         total_amount |-> gross,
         line_items |-> line_items,
         raw_text |-> Get(raw, "raw_text"),
         source_file |-> Get(raw, "source_file")]

\* lines 59-60
KeepInvoiceId(raw, out) ==
    IF TruthyStr(Get(raw, "invoice_id")) THEN Put(out, "invoice_id", Get(raw, "invoice_id"))
    ELSE out

\* variant: line 26 does not read supplier_name
normalize_invoice_NoSupplier(raw) ==
    KeepInvoiceId(raw,
        NormalizeFields(raw,
            OrName(Get(raw, "seller_name"), Get(raw, "seller")),
            OrNum(OrNum(Get(raw, "net_total"), Get(raw, "subtotal")), Get(raw, "net")),
            OrNum(OrNum(Get(raw, "gross_total"), Get(raw, "total_amount")),
                  Get(raw, "amount_due")),
            OrList(Get(raw, "line_items"), Some(<<>>))))

\* variant: line 54 has no  or []
normalize_invoice_NoDefault(raw) ==
    KeepInvoiceId(raw,
        NormalizeFields(raw,
            OrName(OrName(Get(raw, "seller_name"), Get(raw, "supplier_name")),
                   Get(raw, "seller")),
            OrNum(OrNum(Get(raw, "net_total"), Get(raw, "subtotal")), Get(raw, "net")),
            OrNum(OrNum(Get(raw, "gross_total"), Get(raw, "total_amount")),
                  Get(raw, "amount_due")),
            Get(raw, "line_items")))

normalize_invoice(raw) ==
    KeepInvoiceId(raw,
        NormalizeFields(raw,
            OrName(OrName(Get(raw, "seller_name"), Get(raw, "supplier_name")),
                   Get(raw, "seller")),
            OrNum(OrNum(Get(raw, "net_total"), Get(raw, "subtotal")), Get(raw, "net")),
            OrNum(OrNum(Get(raw, "gross_total"), Get(raw, "total_amount")),
                  Get(raw, "amount_due")),
            OrList(Get(raw, "line_items"), Some(<<>>))))

---------------------------------------------------------------------------
(* The extractor (extractor.py) and the pipelines (api.py, app.py) *)

\* An uploaded file is a record: name and size of the upload; readable, whether
\* pdfplumber opens it; regex_raises, whether regex_patterns.extract_all_fields
\* raises on its text; extracted, the dict extract_all_fields returns otherwise;
\* local, what the _extract_name heuristics of extractor.py find; line_items,
\* what _extract_line_items returns.

MAX_UPLOAD_SIZE == 10485760

\* file.filename.lower().endswith('.pdf') on the names the model uses
EndsWithPdf(name) ==
    CASE name = "a.pdf" -> TRUE
      [] name = "b.pdf" -> TRUE
      [] name = "c.PDF" -> TRUE
      [] name = "d.pdf" -> TRUE
      [] name = "e.pdf" -> TRUE
      [] name = "g.pdf" -> TRUE
      [] OTHER -> FALSE

\* the name of the temporary file the upload is written to
TempName == "tmp.pdf"

\* regex_patterns has no attribute extract_tax_id: evaluating line 329 raises
extract_tax_id == [exception |-> "AttributeError"]

\* the dict of lines 319-331 is not built: evaluating its supplier_tax_id entry raises
FallbackFields(file) == extract_tax_id

\* lines 300-305: the dict of extract_all_fields, the names from the local
\* heuristics when it has none
RegexFields(file) ==
    LET extracted == file.extracted
        seller == IF ~TruthyName(Get(extracted, "seller_name"))
                  THEN file.local.seller_name ELSE Get(extracted, "seller_name")
        buyer == IF ~TruthyStr(Get(extracted, "buyer_name"))
                 THEN file.local.buyer_name ELSE Get(extracted, "buyer_name")
    IN  Put(Put(extracted, "seller_name", seller), "buyer_name", buyer)

\* extract_invoice(path): the normalized record, or the exception it raises
extract_invoice(file) ==
    IF ~file.readable THEN [exception |-> "PDFSyntaxError"]
    ELSE LET fields_ == IF file.regex_raises THEN FallbackFields(file) ELSE RegexFields(file)
         IN  IF "exception" \in DOMAIN fields_ THEN fields_
             ELSE normalize_invoice(
                      Put(Put(Put(fields_, "line_items", Some(file.line_items)),
                              "raw_text", Some("text")),
                          "source_file", Some(TempName)))

\* the entry appended to extracted_invoices for one file (api.py 112-120, app.py 34-42)
ExtractedEntry(file) ==
    LET invoice_data == extract_invoice(file)
    IN  IF "exception" \in DOMAIN invoice_data
        THEN [source_file |-> Some(file.name), error |-> Some("Extraction failed")]
        ELSE invoice_data

ExtractedInvoices(fs) == [i \in 1..Len(fs) |-> ExtractedEntry(fs[i])]

\* [inv for inv in extracted_invoices if 'error' not in inv]
NoError(inv) == "error" \notin DOMAIN inv

ValidInvoices(extracted_invoices) == SelectSeq(extracted_invoices, NoError)

\* the validation result of api.py 129-138 and app.py 55-61
EmptyValidation ==
    [per_invoice |-> <<>>,
     summary |-> [total_invoices |-> 0,
                  valid_count |-> 0,
                  invalid_count |-> 0,
                  error_counts |-> EmptyDict,
                  duplicate_groups |-> 0]]

\* variant: the validation runs over every entry, the failed ones included
Validation_AllEntries(extracted_invoices) ==
    IF extracted_invoices # <<>> THEN validate_batch(extracted_invoices)
    ELSE EmptyValidation

\* validate_batch(valid_invoices) if valid_invoices else the empty result
Validation(extracted_invoices) ==
    LET valid_invoices == ValidInvoices(extracted_invoices)
    IN  IF valid_invoices # <<>> THEN validate_batch(valid_invoices)
        ELSE EmptyValidation

\* app.py 23-66; an exception of validate_batch is not caught
process_files_locally(fs) ==
    LET extracted_invoices == ExtractedInvoices(fs)
        validation_result == Validation(extracted_invoices)
    IN  IF "exception" \in DOMAIN validation_result THEN validation_result
        ELSE [extracted |-> extracted_invoices, validation |-> validation_result]

HTTPException(status_code) == [status_code |-> status_code]

\* the files the loop of api.py 89-120 rejects: not named .pdf, or too large
Rejected(fs) ==
    {i \in 1..Len(fs) : ~EndsWithPdf(fs[i].name) \/ fs[i].size > MAX_UPLOAD_SIZE}

\* api.py 81-148
extract_and_validate_pdfs(fs) ==
    IF fs = <<>> THEN HTTPException(400)
    ELSE IF Rejected(fs) # {}
    THEN LET file == fs[CHOOSE i \in Rejected(fs) : \A j \in Rejected(fs) : i <= j]
         IN  IF ~EndsWithPdf(file.name) THEN HTTPException(400) ELSE HTTPException(413)
    ELSE LET extracted_invoices == ExtractedInvoices(fs)
             validation_result == Validation(extracted_invoices)
         IN  IF "exception" \in DOMAIN validation_result THEN HTTPException(500)
             ELSE [extracted |-> extracted_invoices, validation |-> validation_result]

\* {**extracted_inv, **val_result}
MergeDicts(a, b) == [k \in DOMAIN a \cup DOMAIN b |-> IF k \in DOMAIN b THEN b[k] ELSE a[k]]

\* app.py 307-321
MergedInvoices(response_data) ==
    LET extracted == response_data.extracted
        per_invoice == response_data.validation.per_invoice
    IN  [idx \in 1..Len(per_invoice) |->
            MergeDicts(IF idx <= Len(extracted) THEN extracted[idx] ELSE EmptyDict,
                       per_invoice[idx])]

---------------------------------------------------------------------------
(* Objects: the dicts and lists of the interpreter, and the frames of calls *)

\* heap is the sequence of the objects allocated so far; an object's address
\* is its index. A dict or list holds the addresses of the objects it refers
\* to; strings, numbers, tuples and line_items (never written) are values.
\* site is the statement that created the object, owner the caller whose
\* call created it.
Object(type, site, owner, value) ==
    [type |-> type, site |-> site, owner |-> owner, value |-> value]

\* the address of a new object
New(h) == Len(h) + 1

\* variant: errors of line 205 is one module-level list that every call of
\* validate_invoice empties and fills
AllocErrors_Shared(h) ==
    IF \E a \in 1..Len(h) : h[a].site = "errors"
    THEN CHOOSE a \in 1..Len(h) : h[a].site = "errors"
    ELSE New(h)

\* errors = [], line 205: a new list
AllocErrors(h) == New(h)

\* h with the object obj at address a
Store(h, a, obj) ==
    IF a = New(h) THEN Append(h, obj) ELSE [h EXCEPT ![a] = obj]

\* the records a list of dicts refers to
Records(h, list) == [i \in 1..Len(h[list].value) |-> h[h[list].value[i]].value]

\* the result dict at address r with its errors list read
ResultValue(h, r) ==
    [invoice_id |-> h[r].value["invoice_id"],
     is_valid |-> h[r].value["is_valid"],
     errors |-> h[h[r].value["errors"]].value]

PerInvoiceValue(h, per_invoice) ==
    [i \in 1..Len(per_invoice) |-> ResultValue(h, per_invoice[i])]

\* lines 213-217: what the five extend calls add to errors
Rules(inv) ==
    _validate_missing_fields(inv)
    \o _validate_format(inv)
    \o _validate_currency(inv)
    \o _validate_business_rules(inv)
    \o _validate_sanity_checks(inv)

\* lines 245-252: the record at idx is in a duplicate set
InDuplicateMap(inv, duplicate_map, idx) ==
    /\ TruthyStr(Get(inv, "invoice_number"))
    /\ DuplicateKey(inv) \in DOMAIN duplicate_map
    /\ InList(idx, duplicate_map[DuplicateKey(inv)])

\* variant: line 254 sets is_valid in the record instead of the result
FlagTarget_Invoice(h, call) == h[call.invoices].value[call.idx]

\* the dict line 254 writes into: result
FlagTarget(h, call) == call.result

\* the frame of a call of fn on the list at address list (or on its
\* first record); given is what the list held when the call was made
Frame(fn, list, given) ==
    [fn |-> fn, invoices |-> list, given |-> given, pc |-> "call", idx |-> 1,
     duplicate_map |-> EmptyDict, per_invoice |-> <<>>, errors |-> 0,
     invoice_id |-> None, result |-> 0, returned |-> None]

\* a caller's batch as objects: one dict per record, then the list of them
Load(h, owner, batch) ==
    h \o [i \in 1..Len(batch) |-> Object("dict", "input", owner, batch[i])]
      \o <<Object("list", "input", owner, [i \in 1..Len(batch) |-> Len(h) + i])>>

---------------------------------------------------------------------------
(* Inputs *)

\* longest batch, longest line_items list, longest reordered batch, most
\* uploads, longest batch of a caller that runs next to another, half-width of
\* the amount windows
MaxBatch == 4

MaxItems == 2

MaxPermuted == 3

MaxFiles == 3

MaxCallBatch == 2

TolWindow == 2

\* the wall-clock date of the runs that do not vary it
Today == [year |-> 2026, month |-> 11, day |-> 4]

\* the dict with the keys of d whose value is not None
DropNone(d) == [k \in {x \in DOMAIN d : d[x] # None} |-> d[k]]

Without(d, k) == [x \in DOMAIN d \ {k} |-> d[x]]

SeqsUpTo(S, n) == UNION {[1..k -> S] : k \in 0..n}

Acme == <<"A", "c", "m", "e">>

\* a record that passes every single-invoice rule
ValidInvoice ==
    [invoice_number |-> Some("INV-1"),
     invoice_date |-> Some("2024-01-01"),
     due_date |-> Some("2024-02-01"),
     seller_name |-> Some(Acme),
     buyer_name |-> Some("Buyer"),
     supplier_tax_id |-> Some("TAX1"),
     currency |-> Some("EUR"),
     net_total |-> Some(10000),
     tax_amount |-> Some(1000),
     gross_total |-> Some(11000),
     line_items |-> Some(<<[line_total |-> Some(10000)]>>)]

\* the records of test_duplicate_detection
TestDuplicate ==
    [invoice_number |-> Some("INV-2"),
     supplier_tax_id |-> Some("TAX1"),
     invoice_date |-> Some("2024-01-01")]

BatchRecords ==
    { ValidInvoice,
      \* the same key through seller_tax_id, the name through supplier_name
      Put(Put(Without(Without(ValidInvoice, "supplier_tax_id"), "seller_name"),
              "seller_tax_id", Some("TAX1")), "supplier_name", Some(Acme)),
      \* the same key through an empty supplier_tax_id; fails totals_mismatch
      Put(Put(Put(ValidInvoice, "supplier_tax_id", Some("")),
              "seller_tax_id", Some("TAX1")), "gross_total", Some(12000)),
      \* another tax id; carries its own invoice_id
      Put(Put(ValidInvoice, "supplier_tax_id", Some("TAX2")), "invoice_id", Some("ID-7")),
      \* another number
      Put(ValidInvoice, "invoice_number", Some("INV-2")),
      TestDuplicate,
      \* no invoice_number, an empty invoice_number
      Without(ValidInvoice, "invoice_number"),
      Put(ValidInvoice, "invoice_number", Some("")),
      \* nothing but the number; the same with None and '' in the other key fields
      [invoice_number |-> Some("INV-1")],
      [invoice_number |-> Some("INV-1"), supplier_tax_id |-> None, invoice_date |-> Some("")],
      \* an aware invoice_date and a naive due_date
      Put(ValidInvoice, "invoice_date", Some("2024-03-01T10:00:00Z")) }

\* records that share a key, differ in it, or have no invoice_number
OrderRecords ==
    { ValidInvoice,
      Put(Put(Without(Without(ValidInvoice, "supplier_tax_id"), "seller_name"),
              "seller_tax_id", Some("TAX1")), "supplier_name", Some(Acme)),
      Put(Put(Put(ValidInvoice, "supplier_tax_id", Some("")),
              "seller_tax_id", Some("TAX1")), "gross_total", Some(12000)),
      Put(ValidInvoice, "invoice_number", Some("INV-2")),
      TestDuplicate,
      Without(ValidInvoice, "invoice_number"),
      \* an aware invoice_date and a naive due_date
      Put(ValidInvoice, "invoice_date", Some("2024-03-01T10:00:00Z")) }

OrderBatches == SeqsUpTo(OrderRecords, MaxPermuted)

Batches == SeqsUpTo(BatchRecords, MaxBatch)

DateStrings ==
    {None, Some(""), Some("2024-01-01"), Some("2024-02-01"), Some("2024-03-01"),
     Some("01/03/2024"), Some("1 March 2024"), Some("2024-03-01 08:00"),
     Some("2024-03-01 17:30"), Some("2024-03-01T10:00:00Z"), Some("not-a-date")}

LineItems ==
    {DropNone(f) : f \in [line_total : {None, Some(0), Some(5000), Some(10000), Some(-5000)},
                          amount : {None, Some(5000)}]}

\* the amounts vary, with and without a line list and a pair of dates
TotalsFamily ==
    [net_total : {None, Some(0), Some(10000)},
     subtotal : {None, Some(10000)},
     tax_amount : {None, Some(0), Some(1000)},
     gross_total : {None, Some(0), Some(11000), Some(12000), Some(-500)},
     total_amount : {None, Some(11000), Some(12000), Some(-500)},
     line_items : {None, Some(<<[line_total |-> Some(5000)]>>)},
     invoice_date : {None, Some("2024-03-01")},
     due_date : {Some("2024-02-01")}]

\* the line list varies
LinesFamily ==
    [net_total : {None, Some(0), Some(10000)},
     subtotal : {None, Some(10000)},
     tax_amount : {None, Some(1000)},
     gross_total : {None, Some(12000)},
     line_items : {None} \cup {Some(l) : l \in SeqsUpTo(LineItems, MaxItems)},
     invoice_date : {Some("2024-03-01")},
     due_date : {None, Some("2024-02-01")}]

\* the dates vary
DatesFamily ==
    [net_total : {None, Some(10000)},
     tax_amount : {Some(1000)},
     gross_total : {Some(11000), Some(12000)},
     invoice_date : DateStrings,
     due_date : DateStrings]

\* every rule family can fire or stay silent, from the record with no fields on
RulesFamily ==
    [invoice_number : {None, Some("INV-1")},
     invoice_date : {None, Some(""), Some("not-a-date"), Some("2024-03-01")},
     due_date : {None, Some("2024-02-01")},
     seller_name : {None, Some(Acme)},
     buyer_name : {None, Some("Buyer")},
     currency : {None, Some("EUR"), Some("XYZ")},
     net_total : {None, Some(10000)},
     tax_amount : {None, Some(1000)},
     gross_total : {None, Some(11000), Some(-500)},
     line_items : {None, Some(<<[line_total |-> Some(5000)]>>)}]

\* the accepted codes, other spellings of some of them, and other strings
CurrencyStrings ==
    {None, Some(""), Some("eur"), Some("Eur"), Some("usd"), Some("jpy"),
     Some("XYZ"), Some("xyz"), Some("EURO"), Some("$")}
    \cup {Some(c) : c \in VALID_CURRENCIES}

\* the currency varies
CurrencyFamily ==
    [currency : CurrencyStrings,
     invoice_number : {None, Some("INV-1")},
     gross_total : {None, Some(-500)}]

\* names with spaces, tabs, punctuation, hyphens, underscores and digits
SupplierNames ==
    {Acme, <<"a", " ", "b">>, <<"a", " ", " ", "b">>, <<"a", "\t", "b">>,
     <<"a", ".", "b">>, <<"a", "-", "_", "1">>}

\* the components of the generated id vary
IdFamily ==
    [invoice_id : {None, Some(""), Some("ID-7")},
     supplier_name : {None} \cup {Some(n) : n \in SupplierNames},
     seller_name : {None, Some(<<>>), Some(Acme)},
     invoice_number : {None, Some(""), Some("INV-1")},
     invoice_date : {None, Some("2024-03-01")}]

RulesInputs == {DropNone(f) : f \in RulesFamily}

InvoiceInputs ==
    {DropNone(f) : f \in TotalsFamily \cup LinesFamily \cup DatesFamily \cup CurrencyFamily
                          \cup IdFamily}
    \cup RulesInputs

\* wall-clock dates, and date strings that leave a part of the date out
ClockDays ==
    {[year |-> 2024, month |-> 3, day |-> 10],
     [year |-> 2024, month |-> 3, day |-> 20],
     [year |-> 2025, month |-> 1, day |-> 5]}

Later(d1, d2) ==
    (d1.year * 12 + d1.month) * 31 + d1.day > (d2.year * 12 + d2.month) * 31 + d2.day

ClockFamily ==
    [invoice_number : {None, Some("INV-1")},
     invoice_date : DateStrings \cup {Some("March 2024"), Some("15 March")},
     due_date : {None, Some("2024-03-01"), Some("2024-03-15"), Some("March 2024")}]

ClockInputs == {DropNone(f) : f \in ClockFamily}

Other == <<"O", "t", "h", "e", "r">>

\* the names and identifiers under every key the normalizer reads for them
NamesFamily ==
    [invoice_number : {None, Some("INV-1")},
     invoice_id : {None, Some("ID-7")},
     seller_name : {None, Some(<<>>), Some(Acme)},
     supplier_name : {None, Some(Other)},
     seller : {None, Some(Other)},
     buyer_name : {None, Some("Buyer")},
     buyer : {None, Some("Other")},
     supplier_tax_id : {None, Some(""), Some("TAX1")},
     seller_tax_id : {None, Some("TAX2")}]

\* the amounts under every key the normalizer reads for them
AmountsFamily ==
    [net_total : {None, Some(0), Some(10000)},
     subtotal : {None, Some(0), Some(9000)},
     net : {None, Some(8000)},
     tax_amount : {None, Some(0), Some(1000)},
     tax : {None, Some(500)},
     gross_total : {None, Some(0), Some(11000)},
     total_amount : {None, Some(12000), Some(-500)},
     amount_due : {None, Some(7000)},
     line_items : {None, Some(<<>>), Some(<<[line_total |-> Some(5000)]>>)}]

\* the same data under seller_name / net_total / gross_total
CanonicalFamily ==
    [invoice_number : {None, Some("INV-1")},
     invoice_date : {None, Some("2024-03-01")},
     due_date : {None, Some("2024-02-01")},
     seller_name : {None, Some(<<>>), Some(Acme)},
     buyer_name : {None, Some("Buyer")},
     net_total : {None, Some(0), Some(10000)},
     tax_amount : {None, Some(1000)},
     gross_total : {None, Some(0), Some(11000), Some(12000)},
     line_items : {None, Some(<<[line_total |-> Some(5000)]>>)}]

\* the record with the value of key a under key b
Rename(d, a, b) == IF a \in DOMAIN d THEN Put(Without(d, a), b, d[a]) ELSE d

\* the record under supplier_name / subtotal / total_amount
SynonymForm(d) ==
    Rename(Rename(Rename(d, "seller_name", "supplier_name"), "net_total", "subtotal"),
           "gross_total", "total_amount")

\* the record under seller_name / net_total / gross_total
CanonicalForm(d) ==
    Rename(Rename(Rename(d, "supplier_name", "seller_name"), "subtotal", "net_total"),
           "total_amount", "gross_total")

RawInputs ==
    {DropNone(f) : f \in NamesFamily \cup AmountsFamily \cup CanonicalFamily}
    \cup {SynonymForm(DropNone(f)) : f \in CanonicalFamily}

\* what extract_all_fields finds in a complete invoice
CompleteFields ==
    [invoice_number |-> Some("INV-1"),
     invoice_date |-> Some("2024-01-01"),
     due_date |-> Some("2024-02-01"),
     currency |-> Some("EUR"),
     net_total |-> Some(10000),
     tax_amount |-> Some(1000),
     gross_total |-> Some(11000),
     seller_name |-> Some(Acme),
     buyer_name |-> Some("Buyer")]

NoNames == [seller_name |-> None, buyer_name |-> None]

GoodUpload(name) ==
    [name |-> name, size |-> 1024, readable |-> TRUE, regex_raises |-> FALSE,
     extracted |-> CompleteFields, local |-> NoNames,
     line_items |-> <<[line_total |-> Some(10000)]>>]

\* two complete invoices with one key; an invoice whose seller comes from the
\* local heuristics and whose totals do not add up; a file pdfplumber cannot
\* open; a text on which extract_all_fields raises; a name that does not end
\* in .pdf; a file of one byte more than MAX_UPLOAD_SIZE
Uploads ==
    { GoodUpload("a.pdf"),
      GoodUpload("b.pdf"),
      [GoodUpload("c.PDF") EXCEPT
          !.extracted = [CompleteFields EXCEPT !.invoice_number = Some("INV-2"),
                                               !.seller_name = None,
                                               !.buyer_name = None,
                                               !.gross_total = Some(12000)],
          !.local = [seller_name |-> Some(Other), buyer_name |-> None],
          !.line_items = <<>>],
      [GoodUpload("d.pdf") EXCEPT !.readable = FALSE],
      [GoodUpload("e.pdf") EXCEPT !.regex_raises = TRUE],
      GoodUpload("f.txt"),
      [GoodUpload("g.pdf") EXCEPT !.size = MAX_UPLOAD_SIZE + 1] }

UploadLists == SeqsUpTo(Uploads, MaxFiles)

\* what --input names: no file, a text that is not JSON, a JSON object, a JSON
\* number (known by their kind only), a JSON list of invoice objects
InputFiles ==
    {[kind |-> k] : k \in {"missing", "invalid_json", "object", "number"}}
    \cup {[kind |-> "list", value |-> b] : b \in OrderBatches}

Callers == {1, 2}

\* a valid record, a record with the same key whose totals do not add up,
\* a record whose dates cannot be compared
CallRecords ==
    { ValidInvoice,
      Put(Put(Put(ValidInvoice, "supplier_tax_id", Some("")),
              "seller_tax_id", Some("TAX1")), "gross_total", Some(12000)),
      Put(ValidInvoice, "invoice_date", Some("2024-03-01T10:00:00Z")) }

CallBatches == SeqsUpTo(CallRecords, MaxCallBatch)

\* what the second caller runs: validate_batch on a batch with a duplicate
\* pair or with a record that raises, validate_invoice or normalize_invoice
\* on a record
OtherCalls ==
    { [fn |-> "validate_batch", batch |-> <<ValidInvoice, ValidInvoice>>],
      [fn |-> "validate_batch",
       batch |-> <<Put(ValidInvoice, "invoice_date", Some("2024-03-01T10:00:00Z"))>>],
      [fn |-> "validate_invoice", batch |-> <<Put(ValidInvoice, "gross_total", Some(12000))>>],
      [fn |-> "normalize_invoice", batch |-> <<TestDuplicate>>] }

\* amounts around the places where the tolerance comparison changes its answer
Window(c) == (c - TolWindow)..(c + TolWindow)

ToleranceValues ==
    Window(0) \cup Window(200) \cup Window(-200) \cup Window(11000) \cup Window(11055)
    \cup Window(199000) \cup Window(200000) \cup Window(201000)

---------------------------------------------------------------------------
(* The caller: one call of one entry point on one input *)

\* validate_batch(invoices)
CallValidateBatch ==
    /\ pc = "call"
    /\ result' = validate_batch(invoices)
    /\ pc' = "validate_batch"
    /\ UNCHANGED <<invoices, invoice, value1, value2, within, fields, today, previous,
                   files, merged, cli, heap, calls>>

\* validate_invoice(invoices[i]) on one record of the batch
CallValidateMember ==
    /\ pc = "call"
    /\ \E i \in 1..Len(invoices) :
          /\ invoice' = invoices[i]
          /\ result' = validate_invoice(invoices[i])
    /\ pc' = "validate_invoice"
    /\ UNCHANGED <<invoices, value1, value2, within, fields, today, previous,
                   files, merged, cli, heap, calls>>

\* validate_invoice(invoice)
CallValidateInvoice ==
    /\ pc = "call"
    /\ result' = validate_invoice(invoice)
    /\ pc' = "validate_invoice"
    /\ UNCHANGED <<invoices, invoice, value1, value2, within, fields, today, previous,
                   files, merged, cli, heap, calls>>

\* _is_within_tolerance(value1, value2)
CallIsWithinTolerance ==
    /\ within = None
    /\ within' = Some(_is_within_tolerance(Some(value1), Some(value2)))
    /\ UNCHANGED <<pc, invoices, invoice, value1, value2, result, fields, today, previous,
                   files, merged, cli, heap, calls>>

Init ==
    /\ pc = "call"
    /\ invoices \in Batches
    /\ invoice = None
    /\ value1 = None
    /\ value2 = None
    /\ within = None
    /\ result = None
    /\ fields = None
    /\ today = Today
    /\ previous = None
    /\ files = None
    /\ merged = None
    /\ cli = None
    /\ heap = None
    /\ calls = None

Next == CallValidateBatch \/ CallValidateMember

Spec == Init /\ [][Next]_vars

InitInvoice ==
    /\ pc = "call"
    /\ invoices = <<>>
    /\ invoice \in InvoiceInputs
    /\ value1 = None
    /\ value2 = None
    /\ within = None
    /\ result = None
    /\ fields = None
    /\ today = Today
    /\ previous = None
    /\ files = None
    /\ merged = None
    /\ cli = None
    /\ heap = None
    /\ calls = None

NextInvoice == CallValidateInvoice

SpecInvoice == InitInvoice /\ [][NextInvoice]_vars

\* the record whose gross_total is value1 and whose net_total + tax_amount is value2
InitTolerance ==
    /\ pc = "call"
    /\ invoices = <<>>
    /\ value1 \in ToleranceValues
    /\ value2 \in ToleranceValues
    /\ invoice = [net_total |-> Some(value2 - 1000),
                  tax_amount |-> Some(1000),
                  gross_total |-> Some(value1)]
    /\ within = None
    /\ result = None
    /\ fields = None
    /\ today = Today
    /\ previous = None
    /\ files = None
    /\ merged = None
    /\ cli = None
    /\ heap = None
    /\ calls = None

NextTolerance == CallIsWithinTolerance \/ CallValidateInvoice

SpecTolerance == InitTolerance /\ [][NextTolerance]_vars

\* a batch that is compared with its reorderings and with its front
InitOrder ==
    /\ pc = "call"
    /\ invoices \in OrderBatches
    /\ invoice = None
    /\ value1 = None
    /\ value2 = None
    /\ within = None
    /\ result = None
    /\ fields = None
    /\ today = Today
    /\ previous = None
    /\ files = None
    /\ merged = None
    /\ cli = None
    /\ heap = None
    /\ calls = None

NextOrder == CallValidateBatch \/ CallValidateMember

SpecOrder == InitOrder /\ [][NextOrder]_vars

\* a record and the batch that holds it twice
InitRules ==
    /\ pc = "call"
    /\ invoice \in RulesInputs
    /\ invoices = <<invoice, invoice>>
    /\ value1 = None
    /\ value2 = None
    /\ within = None
    /\ result = None
    /\ fields = None
    /\ today = Today
    /\ previous = None
    /\ files = None
    /\ merged = None
    /\ cli = None
    /\ heap = None
    /\ calls = None

NextRules == CallValidateInvoice \/ CallValidateBatch

SpecRules == InitRules /\ [][NextRules]_vars

\* the wall clock moves on between two calls
Tick ==
    /\ \E d \in ClockDays : Later(d, today) /\ today' = d
    /\ UNCHANGED <<pc, invoices, invoice, value1, value2, within, result, fields, previous,
                   files, merged, cli, heap, calls>>

\* validate_invoice(invoice) once more, on the record of the call before
CallValidateInvoiceAgain ==
    /\ pc = "validate_invoice"
    /\ previous' = result
    /\ result' = validate_invoice(invoice)
    /\ pc' = "validate_invoice_again"
    /\ UNCHANGED <<invoices, invoice, value1, value2, within, fields, today,
                   files, merged, cli, heap, calls>>

InitClock ==
    /\ pc = "call"
    /\ invoices = <<>>
    /\ invoice \in ClockInputs
    /\ value1 = None
    /\ value2 = None
    /\ within = None
    /\ result = None
    /\ fields = None
    /\ today \in ClockDays
    /\ previous = None
    /\ files = None
    /\ merged = None
    /\ cli = None
    /\ heap = None
    /\ calls = None

NextClock == CallValidateInvoice \/ Tick \/ CallValidateInvoiceAgain

SpecClock == InitClock /\ [][NextClock]_vars

\* normalize_invoice(fields)
CallNormalizeInvoice ==
    /\ pc = "call"
    /\ invoice' = normalize_invoice(fields)
    /\ pc' = "normalize_invoice"
    /\ UNCHANGED <<invoices, value1, value2, within, result, fields, today, previous,
                   files, merged, cli, heap, calls>>

\* validate_invoice on the normalized record
CallValidateNormalized ==
    /\ pc = "normalize_invoice"
    /\ result' = validate_invoice(invoice)
    /\ pc' = "validate_invoice"
    /\ UNCHANGED <<invoices, invoice, value1, value2, within, fields, today, previous,
                   files, merged, cli, heap, calls>>

InitNormalize ==
    /\ pc = "call"
    /\ invoices = <<>>
    /\ invoice = None
    /\ value1 = None
    /\ value2 = None
    /\ within = None
    /\ result = None
    /\ fields \in RawInputs
    /\ today = Today
    /\ previous = None
    /\ files = None
    /\ merged = None
    /\ cli = None
    /\ heap = None
    /\ calls = None

NextNormalize == CallNormalizeInvoice \/ CallValidateNormalized

SpecNormalize == InitNormalize /\ [][NextNormalize]_vars

\* POST /extract-and-validate-pdfs with the uploaded files
CallExtractAndValidatePdfs ==
    /\ pc = "call"
    /\ result' = extract_and_validate_pdfs(files)
    /\ invoices' = IF "validation" \in DOMAIN result'
                   THEN ValidInvoices(ExtractedInvoices(files)) ELSE invoices
    /\ pc' = "extract_and_validate_pdfs"
    /\ UNCHANGED <<invoice, value1, value2, within, fields, today, previous,
                   files, merged, cli, heap, calls>>

\* process_files_locally(uploaded_files), app.py 264
CallProcessFilesLocally ==
    /\ pc = "call"
    /\ result' = process_files_locally(files)
    /\ invoices' = IF "validation" \in DOMAIN result'
                   THEN ValidInvoices(ExtractedInvoices(files)) ELSE invoices
    /\ pc' = "process_files_locally"
    /\ UNCHANGED <<invoice, value1, value2, within, fields, today, previous,
                   files, merged, cli, heap, calls>>

\* main merges the extracted records with the validation results, app.py 305-321
MergeResults ==
    /\ pc = "process_files_locally"
    /\ "validation" \in DOMAIN result
    /\ merged' = MergedInvoices(result)
    /\ pc' = "main"
    /\ UNCHANGED <<invoices, invoice, value1, value2, within, result, fields, today,
                   previous, files, cli, heap, calls>>

\* extract_invoice on the temporary file of the first upload
CallExtractInvoice ==
    /\ pc = "call"
    /\ files # <<>>
    /\ result' = extract_invoice(files[1])
    /\ pc' = "extract_invoice"
    /\ UNCHANGED <<invoices, invoice, value1, value2, within, fields, today, previous,
                   files, merged, cli, heap, calls>>

InitPipeline ==
    /\ pc = "call"
    /\ invoices = <<>>
    /\ invoice = None
    /\ value1 = None
    /\ value2 = None
    /\ within = None
    /\ result = None
    /\ fields = None
    /\ today = Today
    /\ previous = None
    /\ files \in UploadLists
    /\ merged = None
    /\ cli = None
    /\ heap = None
    /\ calls = None

NextPipeline ==
    \/ CallExtractAndValidatePdfs
    \/ CallProcessFilesLocally
    \/ MergeResults
    \/ CallExtractInvoice

SpecPipeline == InitPipeline /\ [][NextPipeline]_vars

\* cli.py validate: the input path does not exist, lines 106-108
CliCheckExists ==
    /\ pc = "validate"
    /\ IF cli.input.kind = "missing"
       THEN /\ cli' = [cli EXCEPT !.exit_code = Some(1)]
            /\ pc' = "exit"
       ELSE /\ cli' = cli
            /\ pc' = "json.load"
    /\ UNCHANGED <<invoices, invoice, value1, value2, within, result, fields, today,
                   previous, files, merged, heap, calls>>

\* json.load(f), lines 111-119: a text that is not JSON exits with code 1
CliLoad ==
    /\ pc = "json.load"
    /\ IF cli.input.kind = "invalid_json"
       THEN /\ cli' = [cli EXCEPT !.exit_code = Some(1)]
            /\ pc' = "exit"
            /\ UNCHANGED invoices
       ELSE /\ invoices' = IF cli.input.kind = "list" THEN cli.input.value ELSE invoices
            /\ cli' = cli
            /\ pc' = "isinstance"
    /\ UNCHANGED <<invoice, value1, value2, within, result, fields, today,
                   previous, files, merged, heap, calls>>

\* isinstance(invoices, list), lines 121-123
CliCheckList ==
    /\ pc = "isinstance"
    /\ IF cli.input.kind # "list"
       THEN /\ cli' = [cli EXCEPT !.exit_code = Some(1)]
            /\ pc' = "exit"
       ELSE /\ cli' = cli
            /\ pc' = "validate_batch"
    /\ UNCHANGED <<invoices, invoice, value1, value2, within, result, fields, today,
                   previous, files, merged, heap, calls>>

\* validation_result = validate_batch(invoices), line 128; an exception that
\* escapes the call ends the process with code 1
CliValidateBatch ==
    /\ pc = "validate_batch"
    /\ result' = validate_batch(invoices)
    /\ IF "exception" \in DOMAIN result'
       THEN /\ cli' = [cli EXCEPT !.exit_code = Some(1)]
            /\ pc' = "exit"
       ELSE /\ cli' = cli
            /\ pc' = "json.dump"
    /\ UNCHANGED <<invoices, invoice, value1, value2, within, fields, today,
                   previous, files, merged, heap, calls>>

\* json.dump(validation_result, f), lines 131-133
CliWriteReport ==
    /\ pc = "json.dump"
    /\ cli' = [cli EXCEPT !.report = Some(result)]
    /\ pc' = "summary"
    /\ UNCHANGED <<invoices, invoice, value1, value2, within, result, fields, today,
                   previous, files, merged, heap, calls>>

\* lines 135-150: the summary is printed; Exit(code=1) if a record is invalid,
\* and the command returns (code 0) otherwise
CliExit ==
    /\ pc = "summary"
    /\ cli' = [cli EXCEPT !.exit_code =
                  IF result.summary.invalid_count > 0 THEN Some(1) ELSE Some(0)]
    /\ pc' = "exit"
    /\ UNCHANGED <<invoices, invoice, value1, value2, within, result, fields, today,
                   previous, files, merged, heap, calls>>

InitCli ==
    /\ pc = "validate"
    /\ invoices = <<>>
    /\ invoice = None
    /\ value1 = None
    /\ value2 = None
    /\ within = None
    /\ result = None
    /\ fields = None
    /\ today = Today
    /\ previous = None
    /\ files = None
    /\ merged = None
    /\ \E input \in InputFiles : cli = [input |-> input, report |-> None, exit_code |-> None]
    /\ heap = None
    /\ calls = None

NextCli ==
    \/ CliCheckExists
    \/ CliLoad
    \/ CliCheckList
    \/ CliValidateBatch
    \/ CliWriteReport
    \/ CliExit

SpecCli == InitCli /\ [][NextCli]_vars

\* validate_batch, lines 238-239: per_invoice = [] and _detect_duplicates
DetectDuplicates(c) ==
    LET call == calls[c] IN
    /\ call.fn = "validate_batch"
    /\ call.pc = "call"
    /\ calls' = [calls EXCEPT ![c].duplicate_map = _detect_duplicates(Records(heap, call.invoices)),
                              ![c].pc = "loop"]
    /\ UNCHANGED <<pc, invoices, invoice, value1, value2, within, result, fields, today,
                   previous, files, merged, cli, heap>>

\* validate_invoice, lines 205-210, on the record the loop of line 242 has
\* reached or on the record of a direct call: errors = [] and the invoice_id
StartValidateInvoice(c) ==
    LET call == calls[c]
        list == heap[call.invoices].value
    IN
    /\ \/ call.fn = "validate_batch" /\ call.pc = "loop"
       \/ call.fn = "validate_invoice" /\ call.pc = "call"
    /\ call.idx <= Len(list)
    /\ LET inv == heap[list[call.idx]].value
           errors == AllocErrors(heap)
       IN  /\ heap' = Store(heap, errors, Object("list", "errors", c, <<>>))
           /\ calls' = [calls EXCEPT
                  ![c].errors = errors,
                  ![c].invoice_id = IF TruthyStr(Get(inv, "invoice_id"))
                                    THEN <<Get(inv, "invoice_id")[1]>>
                                    ELSE _generate_invoice_id(inv),
                  ![c].pc = "extend"]
    /\ UNCHANGED <<pc, invoices, invoice, value1, value2, within, result, fields, today,
                   previous, files, merged, cli>>

\* validate_invoice, lines 213-217: the five families extend errors; an
\* exception of a family leaves the call
ExtendErrors(c) ==
    LET call == calls[c]
        inv == heap[heap[call.invoices].value[call.idx]].value
    IN
    /\ call.pc = "extend"
    /\ IF BusinessRulesRaise(inv)
       THEN /\ calls' = [calls EXCEPT ![c].pc = "raised", ![c].returned = Raised]
            /\ UNCHANGED heap
       ELSE /\ heap' = [heap EXCEPT ![call.errors].value = @ \o Rules(inv)]
            /\ calls' = [calls EXCEPT ![c].pc = "result"]
    /\ UNCHANGED <<pc, invoices, invoice, value1, value2, within, result, fields, today,
                   previous, files, merged, cli>>

\* validate_invoice, lines 219-223: the result dict
ReturnResult(c) ==
    LET call == calls[c]
        r == New(heap)
    IN
    /\ call.pc = "result"
    /\ heap' = Store(heap, r, Object("dict", "result", c,
                   [invoice_id |-> call.invoice_id,
                    is_valid |-> (Len(heap[call.errors].value) = 0),
                    errors |-> call.errors]))
    /\ calls' = IF call.fn = "validate_batch"
                THEN [calls EXCEPT ![c].result = r, ![c].pc = "flag"]
                ELSE [calls EXCEPT ![c].result = r, ![c].returned = r, ![c].pc = "return"]
    /\ UNCHANGED <<pc, invoices, invoice, value1, value2, within, result, fields, today,
                   previous, files, merged, cli>>

\* validate_batch, lines 245-256: the duplicate flag and per_invoice.append
FlagDuplicate(c) ==
    LET call == calls[c]
        inv == heap[heap[call.invoices].value[call.idx]].value
        errors == heap[call.result].value["errors"]
        target == FlagTarget(heap, call)
    IN
    /\ call.pc = "flag"
    /\ heap' = IF InDuplicateMap(inv, call.duplicate_map, call.idx)
               THEN LET appended == [heap EXCEPT ![errors].value =
                                          Append(@, "anomaly:duplicate_invoice")]
                    IN  [appended EXCEPT ![target].value = Put(@, "is_valid", FALSE)]
               ELSE heap
    /\ calls' = [calls EXCEPT ![c].per_invoice = Append(@, call.result),
                              ![c].idx = @ + 1,
                              ![c].pc = "loop"]
    /\ UNCHANGED <<pc, invoices, invoice, value1, value2, within, result, fields, today,
                   previous, files, merged, cli>>

\* validate_batch, lines 258-280: the summary and the returned dict
ReturnBatch(c) ==
    LET call == calls[c]
        invs == Records(heap, call.invoices)
    IN
    /\ call.fn = "validate_batch"
    /\ call.pc = "loop"
    /\ call.idx > Len(invs)
    /\ calls' = [calls EXCEPT
           ![c].returned = [per_invoice |-> call.per_invoice,
                            summary |-> Summary(invs, PerInvoiceValue(heap, call.per_invoice),
                                                call.duplicate_map)],
           ![c].pc = "return"]
    /\ UNCHANGED <<pc, invoices, invoice, value1, value2, within, result, fields, today,
                   previous, files, merged, cli, heap>>

\* normalize_invoice(raw), utils.py 18-62: out is a new dict
NormalizeInvoice(c) ==
    LET call == calls[c]
        list == heap[call.invoices].value
        out == New(heap)
    IN
    /\ call.fn = "normalize_invoice"
    /\ call.pc = "call"
    /\ list # <<>>
    /\ heap' = Store(heap, out, Object("dict", "out", c, normalize_invoice(heap[list[1]].value)))
    /\ calls' = [calls EXCEPT ![c].returned = out, ![c].pc = "return"]
    /\ UNCHANGED <<pc, invoices, invoice, value1, value2, within, result, fields, today,
                   previous, files, merged, cli>>

\* two callers, each with a batch of its own objects
InitCalls ==
    /\ pc = "calls"
    /\ invoices = <<>>
    /\ invoice = None
    /\ value1 = None
    /\ value2 = None
    /\ within = None
    /\ result = None
    /\ fields = None
    /\ today = Today
    /\ previous = None
    /\ files = None
    /\ merged = None
    /\ cli = None
    /\ \E batch \in CallBatches, other \in OtherCalls :
          /\ heap = Load(Load(<<>>, 1, batch), 2, other.batch)
          /\ calls = [c \in Callers |->
                        IF c = 1
                        THEN Frame("validate_batch", Len(batch) + 1, batch)
                        ELSE Frame(other.fn, Len(batch) + 1 + Len(other.batch) + 1,
                                   other.batch)]

NextCalls ==
    \E c \in Callers :
        \/ DetectDuplicates(c)
        \/ StartValidateInvoice(c)
        \/ ExtendErrors(c)
        \/ ReturnResult(c)
        \/ FlagDuplicate(c)
        \/ ReturnBatch(c)
        \/ NormalizeInvoice(c)

SpecCalls == InitCalls /\ [][NextCalls]_vars

---------------------------------------------------------------------------
(* Vocabulary of the properties *)

DUPLICATE == "anomaly:duplicate_invoice"

\* the call of validate_batch / validate_invoice returned a value
BatchReturned == pc = "validate_batch" /\ "exception" \notin DOMAIN result

InvoiceReturned == pc = "validate_invoice" /\ "exception" \notin DOMAIN result

HasToken(errors, t) == \E j \in 1..Len(errors) : errors[j] = t

Occurrences(errors, t) == Cardinality({j \in 1..Len(errors) : errors[j] = t})

\* errors without a trailing anomaly:duplicate_invoice
StripDuplicate(errors) ==
    IF errors # <<>> /\ errors[Len(errors)] = DUPLICATE
    THEN SubSeq(errors, 1, Len(errors) - 1) ELSE errors

\* absent or empty
Empty(v) == v = None \/ v = Some("")

\* (str(invoice_number), str(supplier_tax_id or seller_tax_id or ''), str(invoice_date or ''))
StatedKey(inv) ==
    <<Get(inv, "invoice_number"),
      IF ~Empty(Get(inv, "supplier_tax_id")) THEN Get(inv, "supplier_tax_id")
      ELSE IF ~Empty(Get(inv, "seller_tax_id")) THEN Get(inv, "seller_tax_id")
      ELSE Some(""),
      IF ~Empty(Get(inv, "invoice_date")) THEN Get(inv, "invoice_date") ELSE Some("")>>

\* record i has a non-empty invoice_number and shares its key with another such record
InDuplicateGroup(invs, i) ==
    /\ ~Empty(Get(invs[i], "invoice_number"))
    /\ \E j \in 1..Len(invs) :
          /\ j # i
          /\ ~Empty(Get(invs[j], "invoice_number"))
          /\ StatedKey(invs[j]) = StatedKey(invs[i])

DuplicateMembers(invs) == {i \in 1..Len(invs) : InDuplicateGroup(invs, i)}

DuplicateGroups(invs) == {StatedKey(invs[i]) : i \in DuplicateMembers(invs)}

RECURSIVE SumOver(_, _)
SumOver(f, S) ==
    IF S = {} THEN 0
    ELSE LET x == CHOOSE y \in S : TRUE IN f[x] + SumOver(f, S \ {x})

---------------------------------------------------------------------------
(* C1: validate_batch returns one entry per input record, in input order:     *)
(* per_invoice has len(batch) entries, and entry i has the invoice_id of      *)
(* validate_invoice(batch[i]) and, once a trailing anomaly:duplicate_invoice  *)
(* is removed, its errors.                                                    *)
C1_IndexCorrespondence ==
    BatchReturned =>
        /\ Len(result.per_invoice) = Len(invoices)
        /\ \A i \in 1..Len(invoices) :
              LET single == validate_invoice(invoices[i])
                  entry == result.per_invoice[i]
              IN  /\ entry.invoice_id = single.invoice_id
                  /\ StripDuplicate(entry.errors) = single.errors

\* a batch of three whose entries differ: a flagged duplicate first, an
\* unflagged record with another id and other errors second
C1_Witness ==
    /\ BatchReturned
    /\ Len(invoices) = 3
    /\ HasToken(result.per_invoice[1].errors, DUPLICATE)
    /\ ~HasToken(result.per_invoice[2].errors, DUPLICATE)
    /\ result.per_invoice[1].invoice_id # result.per_invoice[2].invoice_id
    /\ StripDuplicate(result.per_invoice[1].errors) # result.per_invoice[2].errors

(* C2: record i gets anomaly:duplicate_invoice iff its invoice_number is      *)
(* non-empty and another record with a non-empty invoice_number has the same  *)
(* key; every member of the group is flagged, the first included; a record    *)
(* without invoice_number is never flagged and gets                           *)
(* missing_field:invoice_number.                                              *)
C2_DuplicateFlag ==
    BatchReturned =>
        \A i \in 1..Len(invoices) :
            LET errors == result.per_invoice[i].errors
            IN  /\ HasToken(errors, DUPLICATE) <=> InDuplicateGroup(invoices, i)
                /\ Empty(Get(invoices[i], "invoice_number")) =>
                      /\ ~HasToken(errors, DUPLICATE)
                      /\ HasToken(errors, "missing_field:invoice_number")

\* a group whose first occurrence is flagged, beside two records that agree in
\* every key field but have no invoice_number
C2_Witness ==
    /\ BatchReturned
    /\ Len(invoices) = 4
    /\ InDuplicateGroup(invoices, 1)
    /\ HasToken(result.per_invoice[1].errors, DUPLICATE)
    /\ Empty(Get(invoices[3], "invoice_number"))
    /\ Empty(Get(invoices[4], "invoice_number"))
    /\ Get(invoices[3], "supplier_tax_id") = Get(invoices[4], "supplier_tax_id")
    /\ Get(invoices[3], "invoice_date") = Get(invoices[4], "invoice_date")
    /\ ~HasToken(result.per_invoice[4].errors, DUPLICATE)

(* C3: in every result of validate_invoice and every per_invoice entry of     *)
(* validate_batch, is_valid holds iff errors is empty; a record that passes   *)
(* every single-invoice rule but is in a duplicate group is not valid.        *)
C3_ValidIffNoErrors ==
    /\ InvoiceReturned => (result.is_valid <=> result.errors = <<>>)
    /\ BatchReturned =>
          \A i \in 1..Len(invoices) :
              LET entry == result.per_invoice[i]
              IN  /\ entry.is_valid <=> entry.errors = <<>>
                  /\ InDuplicateGroup(invoices, i) => ~entry.is_valid

\* a record whose only finding is the duplicate
C3_Witness ==
    /\ BatchReturned
    /\ \E i \in 1..Len(invoices) :
          /\ result.per_invoice[i].errors = <<DUPLICATE>>
          /\ ~result.per_invoice[i].is_valid
          /\ validate_invoice(invoices[i]).is_valid

(* C4: the summary counts the batch: total_invoices = len(batch), valid_count *)
(* = number of per_invoice entries with is_valid, invalid_count =             *)
(* total_invoices - valid_count, so the two add up to total_invoices, also    *)
(* for the empty batch.                                                       *)
C4_SummaryCounts ==
    BatchReturned =>
        LET summary == result.summary
            valid == {i \in 1..Len(result.per_invoice) : result.per_invoice[i].is_valid}
        IN  /\ summary.total_invoices = Len(invoices)
            /\ summary.valid_count = Cardinality(valid)
            /\ summary.invalid_count = summary.total_invoices - summary.valid_count
            /\ summary.valid_count + summary.invalid_count = summary.total_invoices
            /\ summary.valid_count >= 0
            /\ summary.invalid_count >= 0

\* valid and invalid records in one batch, one of them invalid only as a duplicate
C4_Witness ==
    /\ BatchReturned
    /\ result.summary.valid_count = 1
    /\ result.summary.invalid_count = 3
    /\ \E i \in 1..Len(invoices) : result.per_invoice[i].errors = <<DUPLICATE>>

(* C5: duplicate_groups is the number of distinct keys shared by at least two *)
(* records, not the number of duplicate records: k records with one key are   *)
(* one group and add k to error_counts['anomaly:duplicate_invoice'].          *)
C5_DuplicateGroups ==
    BatchReturned =>
        LET summary == result.summary
            members == DuplicateMembers(invoices)
        IN  /\ summary.duplicate_groups = Cardinality(DuplicateGroups(invoices))
            /\ members # {} =>
                  /\ DUPLICATE \in DOMAIN summary.error_counts
                  /\ summary.error_counts[DUPLICATE] = Cardinality(members)
            /\ members = {} => DUPLICATE \notin DOMAIN summary.error_counts

\* three records with one key: one group, three tokens
C5_Witness ==
    /\ BatchReturned
    /\ Len(invoices) = 3
    /\ result.summary.duplicate_groups = 1
    /\ result.summary.error_counts[DUPLICATE] = 3

(* C6: the keys of error_counts are exactly the tokens that occur in some     *)
(* per_invoice errors list, each value is the number of occurrences of its    *)
(* token over all entries, and the values add up to the total length of the   *)
(* errors lists.                                                              *)
C6_ErrorCounts ==
    BatchReturned =>
        LET counts == result.summary.error_counts
            per_invoice == result.per_invoice
            entries == 1..Len(per_invoice)
            tokens == UNION {{per_invoice[i].errors[j] : j \in 1..Len(per_invoice[i].errors)}
                             : i \in entries}
            occurrences == [t \in tokens |->
                               SumOver([i \in entries |-> Occurrences(per_invoice[i].errors, t)],
                                       entries)]
        IN  /\ DOMAIN counts = tokens
            /\ \A t \in tokens : counts[t] = occurrences[t] /\ counts[t] > 0
            /\ SumOver(counts, tokens)
                  = SumOver([i \in entries |-> Len(per_invoice[i].errors)], entries)

\* one token counted over several records, another counted once
C6_Witness ==
    /\ BatchReturned
    /\ "business_rule:totals_mismatch" \in DOMAIN result.summary.error_counts
    /\ result.summary.error_counts["business_rule:totals_mismatch"] = 1
    /\ DUPLICATE \in DOMAIN result.summary.error_counts
    /\ result.summary.error_counts[DUPLICATE] = 3

---------------------------------------------------------------------------
(* Vocabulary of the single-invoice properties *)

TOTALS_MISMATCH == "business_rule:totals_mismatch"

LINESUM_MISMATCH == "business_rule:linesum_mismatch"

DUE_BEFORE_INVOICE == "business_rule:due_before_invoice"

\* the first value that is present (not None), the number 0 included
FirstPresent(a, b) == IF a # None THEN a ELSE b

StatedNet(inv) == FirstPresent(Get(inv, "net_total"), Get(inv, "subtotal"))

StatedGross(inv) == FirstPresent(Get(inv, "gross_total"), Get(inv, "total_amount"))

\* |a - b| <= max(|a|, |b|) * 0.005 on hundredths
StatedWithin(a, b) == Abs(a - b) * 1000 <= Max(Abs(a), Abs(b)) * 5

\* the sum of line_total, or amount when line_total is missing, or 0
RECURSIVE StatedLineSum(_)
StatedLineSum(items) ==
    IF items = <<>> THEN 0
    ELSE FirstPresent(FirstPresent(Get(Head(items), "line_total"),
                                   Get(Head(items), "amount")), Some(0))[1]
         + StatedLineSum(Tail(items))

\* the calendar day of a datetime, counted in days
CalendarDay(dt) == (dt.year * 12 + dt.month) * 31 + dt.day

(* C7: validate_invoice emits business_rule:totals_mismatch iff net_total (or *)
(* subtotal), tax_amount and gross_total (or total_amount) all hold a number, *)
(* 0 included, and gross_total is not within tolerance of net_total +         *)
(* tax_amount.                                                                *)
C7_TotalsMismatch ==
    InvoiceReturned =>
        LET net == StatedNet(invoice)
            tax == Get(invoice, "tax_amount")
            gross == StatedGross(invoice)
        IN  HasToken(result.errors, TOTALS_MISMATCH)
            <=> /\ net # None
                /\ tax # None
                /\ gross # None
                /\ ~StatedWithin(gross[1], net[1] + tax[1])

(* C8: the tolerance comparison is relative and inclusive: a and b are within *)
(* tolerance iff |a - b| <= max(|a|,|b|) * 0.005, so a = b = 0 passes; net    *)
(* 100, tax 10, gross 110.55 gives no totals_mismatch and gross 110.56 gives  *)
(* it; a difference of 10 passes exactly when max(|a|,|b|) >= 2000.           *)
C8_Tolerance ==
    /\ within # None =>
          /\ within[1] <=> StatedWithin(value1, value2)
          /\ Abs(value1 - value2) = 1000 =>
                (within[1] <=> Max(Abs(value1), Abs(value2)) >= 200000)
          /\ (value1 = 0 /\ value2 = 0) => within[1]
    /\ (InvoiceReturned /\ value2 = 11000) =>
          /\ value1 = 11055 => ~HasToken(result.errors, TOTALS_MISMATCH)
          /\ value1 = 11056 => HasToken(result.errors, TOTALS_MISMATCH)

\* the comparison has passed at the boundary: a difference of 10.00 at 2000.00
C8_Witness ==
    /\ within = Some(TRUE)
    /\ value1 = 200000
    /\ value2 = 199000
    /\ InvoiceReturned
    /\ ~HasToken(result.errors, TOTALS_MISMATCH)

(* C9: validate_invoice emits business_rule:linesum_mismatch iff line_items   *)
(* is non-empty, net_total is present, the sum S of the items' line_total (or *)
(* amount when line_total is missing, or 0) is > 0 and S is not within        *)
(* tolerance of net_total; a record whose sum is 0 or less never gets it.     *)
C9_LinesumMismatch ==
    InvoiceReturned =>
        LET net == StatedNet(invoice)
            items == Get(invoice, "line_items")
        IN  HasToken(result.errors, LINESUM_MISMATCH)
            <=> /\ items # None
                /\ items[1] # <<>>
                /\ net # None
                /\ StatedLineSum(items[1]) > 0
                /\ ~StatedWithin(net[1], StatedLineSum(items[1]))

(* C10: validate_invoice emits business_rule:due_before_invoice iff           *)
(* invoice_date and due_date are both present, both parse, and the calendar   *)
(* date of due_date is strictly earlier than that of invoice_date; two values *)
(* on one calendar day never produce the token.                               *)
C10_DueBeforeInvoice ==
    InvoiceReturned =>
        LET invoice_date == Get(invoice, "invoice_date")
            due_date == Get(invoice, "due_date")
        IN  HasToken(result.errors, DUE_BEFORE_INVOICE)
            <=> /\ ~Empty(invoice_date)
                /\ ~Empty(due_date)
                /\ _parse_date(invoice_date) # None
                /\ _parse_date(due_date) # None
                /\ CalendarDay(_parse_date(due_date)[1])
                      < CalendarDay(_parse_date(invoice_date)[1])

---------------------------------------------------------------------------
(* The rule families of validate_invoice *)

MISSING_INVOICE_NUMBER == "missing_field:invoice_number"

MISSING_INVOICE_DATE == "missing_field:invoice_date"

MISSING_SELLER_NAME == "missing_field:seller_name"

MISSING_BUYER_NAME == "missing_field:buyer_name"

INVALID_FORMAT == "invalid_format:invoice_date"

INVALID_CURRENCY == "invalid_value:currency"

NEGATIVE_GROSS == "sanity:negative_gross"

\* none of the keys is in the record
Absent(inv, keys) == \A k \in keys : Get(inv, k) = None

\* C11: validate_invoice on the record with no fields returns exactly the four
\* missing_field tokens, in the order invoice_number, invoice_date, seller_name,
\* buyer_name; and no format, currency, business-rule or sanity token is in the
\* result of a record from which every field that rule reads is absent.
C11_EmptyRecord ==
    InvoiceReturned =>
        /\ DOMAIN invoice = {} =>
              result.errors = <<MISSING_INVOICE_NUMBER, MISSING_INVOICE_DATE,
                                MISSING_SELLER_NAME, MISSING_BUYER_NAME>>
        /\ Absent(invoice, {"invoice_date"}) => ~HasToken(result.errors, INVALID_FORMAT)
        /\ Absent(invoice, {"currency"}) => ~HasToken(result.errors, INVALID_CURRENCY)
        /\ Absent(invoice, {"net_total", "subtotal", "tax_amount", "gross_total", "total_amount"})
              => ~HasToken(result.errors, TOTALS_MISMATCH)
        /\ Absent(invoice, {"line_items", "net_total", "subtotal"})
              => ~HasToken(result.errors, LINESUM_MISMATCH)
        /\ Absent(invoice, {"invoice_date", "due_date"})
              => ~HasToken(result.errors, DUE_BEFORE_INVOICE)
        /\ Absent(invoice, {"gross_total", "total_amount"})
              => ~HasToken(result.errors, NEGATIVE_GROSS)

\* the record with no fields has been validated
C11_Witness == InvoiceReturned /\ DOMAIN invoice = {} /\ Len(result.errors) = 4

\* C12: the result of validate_invoice holds sanity:negative_gross when the
\* record's gross_total is present and below 0, and does not hold it when the
\* record's gross_total is present and 0 or more, whatever total_amount is.
C12_NegativeGross ==
    InvoiceReturned =>
        LET gross_total == Get(invoice, "gross_total")
        IN  /\ (gross_total # None /\ gross_total[1] < 0)
                  => HasToken(result.errors, NEGATIVE_GROSS)
            /\ (gross_total # None /\ gross_total[1] >= 0)
                  => ~HasToken(result.errors, NEGATIVE_GROSS)

\* C13: a call of validate_invoice or validate_batch on records whose fields are
\* absent or of the documented type returns a result; it does not raise.
C13_NeverRaises ==
    pc \in {"validate_invoice", "validate_batch"} => "exception" \notin DOMAIN result

\* C14: a second evaluation of validate_invoice on the same record returns the
\* result of the first, whatever the wall-clock dates of the two evaluations.
C14_Deterministic == pc = "validate_invoice_again" => result = previous

\* the order of the tokens in an errors list
TokenOrder ==
    <<MISSING_INVOICE_NUMBER, MISSING_INVOICE_DATE, MISSING_SELLER_NAME, MISSING_BUYER_NAME,
      INVALID_FORMAT, INVALID_CURRENCY, TOTALS_MISMATCH, LINESUM_MISMATCH,
      DUE_BEFORE_INVOICE, NEGATIVE_GROSS, DUPLICATE>>

Rank(t) == CHOOSE r \in 1..Len(TokenOrder) : TokenOrder[r] = t

InTokenOrder(errors) ==
    /\ \A j \in 1..Len(errors) : \E r \in 1..Len(TokenOrder) : TokenOrder[r] = errors[j]
    /\ \A j, k \in 1..Len(errors) : j < k => Rank(errors[j]) < Rank(errors[k])

\* the five families, each on the full record
FiveFamilies(inv) ==
    _validate_missing_fields(inv) \o _validate_format(inv) \o _validate_currency(inv)
    \o _validate_business_rules(inv) \o _validate_sanity_checks(inv)

\* C15: the tokens of every errors list are in the fixed order (the four
\* missing_field tokens, invalid_format, invalid_value:currency, the three
\* business_rule tokens, sanity:negative_gross, anomaly:duplicate_invoice last),
\* and the single-invoice errors are the concatenation of the outputs of the five
\* families, each evaluated on the full record.
C15_TokenOrder ==
    /\ InvoiceReturned =>
          /\ InTokenOrder(result.errors)
          /\ result.errors = FiveFamilies(invoice)
    /\ BatchReturned =>
          \A i \in 1..Len(invoices) :
              LET errors == result.per_invoice[i].errors
              IN  /\ InTokenOrder(errors)
                  /\ StripDuplicate(errors) = FiveFamilies(invoices[i])
                  /\ \A j \in 1..Len(errors) : errors[j] = DUPLICATE => j = Len(errors)

\* a flagged record whose errors hold tokens of four families before the flag
C15_Witness ==
    /\ BatchReturned
    /\ LET errors == result.per_invoice[1].errors
       IN  /\ HasToken(errors, MISSING_BUYER_NAME)
           /\ HasToken(errors, INVALID_CURRENCY)
           /\ HasToken(errors, TOTALS_MISMATCH)
           /\ HasToken(errors, NEGATIVE_GROSS)
           /\ errors[Len(errors)] = DUPLICATE

\* the accepted codes
AcceptedCodes ==
    {"EUR", "USD", "INR", "GBP", "JPY", "CAD", "AUD", "CHF", "CNY",
     "SGD", "HKD", "NZD", "MXN", "BRL", "ZAR"}

\* C16: the result of validate_invoice holds invalid_value:currency exactly when
\* currency is present and non-empty and its upper-cased value is not one of the
\* fifteen accepted codes; an absent currency is never an error.
C16_Currency ==
    InvoiceReturned =>
        LET currency == Get(invoice, "currency")
        IN  HasToken(result.errors, INVALID_CURRENCY)
            <=> (~Empty(currency) /\ UpperStr(currency[1]) \notin AcceptedCodes)

\* an accepted code written in lower case has passed
C16_Witness ==
    /\ InvoiceReturned
    /\ Get(invoice, "currency") = Some("eur")
    /\ ~HasToken(result.errors, INVALID_CURRENCY)

\* C17: the result of validate_invoice holds invalid_format:invoice_date exactly
\* when invoice_date is present and non-empty and the date parser cannot parse
\* it; missing_field:invoice_date and invalid_format:invoice_date are never in
\* one result; a result with invalid_format:invoice_date does not hold
\* business_rule:due_before_invoice.
C17_InvalidFormat ==
    InvoiceReturned =>
        LET invoice_date == Get(invoice, "invoice_date")
        IN  /\ HasToken(result.errors, INVALID_FORMAT)
               <=> (~Empty(invoice_date) /\ DateutilParse(invoice_date[1]) = None)
            /\ ~(HasToken(result.errors, MISSING_INVOICE_DATE)
                 /\ HasToken(result.errors, INVALID_FORMAT))
            /\ HasToken(result.errors, INVALID_FORMAT)
               => ~HasToken(result.errors, DUE_BEFORE_INVOICE)

\* an unparseable invoice_date next to a due_date that parses
C17_Witness ==
    /\ InvoiceReturned
    /\ Get(invoice, "invoice_date") = Some("not-a-date")
    /\ Get(invoice, "due_date") = Some("2024-02-01")
    /\ HasToken(result.errors, INVALID_FORMAT)

---------------------------------------------------------------------------
(* The normalizer *)

\* the record uses none of supplier_name, subtotal, total_amount
\* (none of seller_name, net_total, gross_total)
InCanonicalForm(d) == DOMAIN d \cap {"supplier_name", "subtotal", "total_amount"} = {}

InSynonymForm(d) == DOMAIN d \cap {"seller_name", "net_total", "gross_total"} = {}

\* C18: the record that holds its data under supplier_name, subtotal and
\* total_amount and the record that holds the same data under seller_name,
\* net_total and gross_total have, after normalize_invoice, equal
\* validate_invoice results (invoice_id, is_valid, errors).
C18_SynonymEquivalence ==
    (pc = "validate_invoice" /\ "exception" \notin DOMAIN result) =>
        /\ InCanonicalForm(fields) =>
              result = validate_invoice(normalize_invoice(SynonymForm(fields)))
        /\ InSynonymForm(fields) =>
              result = validate_invoice(normalize_invoice(CanonicalForm(fields)))

\* a record under the three synonyms, with a name and amounts, has been validated
C18_Witness ==
    /\ pc = "validate_invoice"
    /\ "exception" \notin DOMAIN result
    /\ InSynonymForm(fields)
    /\ Get(fields, "supplier_name") = Some(Acme)
    /\ Get(fields, "subtotal") = Some(10000)
    /\ Get(fields, "total_amount") = Some(12000)
    /\ HasToken(result.errors, TOTALS_MISMATCH)
    /\ ~HasToken(result.errors, MISSING_SELLER_NAME)

\* the first value that is not absent, in the order a, b, c
FirstOfThree(a, b, c) == FirstPresent(a, FirstPresent(b, c))

\* the first value that is neither absent nor empty
FirstFilled(a, b, c) ==
    IF ~Empty(a) /\ a # Some(<<>>) THEN a
    ELSE IF ~Empty(b) /\ b # Some(<<>>) THEN b
    ELSE c

\* equal, or both absent or empty
SameFilled(a, b) ==
    \/ a = b
    \/ (Empty(a) \/ a = Some(<<>>)) /\ (Empty(b) \/ b = Some(<<>>))

\* C19: the record normalize_invoice returns has both names of every synonym
\* pair, with one value, and that value is the first input value that is not
\* absent in the order seller_name, supplier_name, seller; net_total, subtotal,
\* net; gross_total, total_amount, amount_due; supplier_tax_id, seller_tax_id.
\* A present first value, the number 0 included, is the value taken.  (Of the
\* strings, the empty one is counted as absent here.)
C19_SynonymPairs ==
    pc = "normalize_invoice" =>
        /\ {"seller_name", "supplier_name", "net_total", "subtotal", "gross_total",
            "total_amount", "supplier_tax_id", "seller_tax_id"} \subseteq DOMAIN invoice
        /\ invoice.seller_name = invoice.supplier_name
        /\ invoice.net_total = invoice.subtotal
        /\ invoice.gross_total = invoice.total_amount
        /\ invoice.supplier_tax_id = invoice.seller_tax_id
        /\ SameFilled(invoice.seller_name,
                      FirstFilled(Get(fields, "seller_name"), Get(fields, "supplier_name"),
                                  Get(fields, "seller")))
        /\ SameFilled(invoice.supplier_tax_id,
                      FirstFilled(Get(fields, "supplier_tax_id"),
                                  Get(fields, "seller_tax_id"), None))
        /\ invoice.net_total
           = FirstOfThree(Get(fields, "net_total"), Get(fields, "subtotal"), Get(fields, "net"))
        /\ invoice.gross_total
           = FirstOfThree(Get(fields, "gross_total"), Get(fields, "total_amount"),
                          Get(fields, "amount_due"))

\* C20, as stated: in the record normalize_invoice returns, a canonical field is
\* None when that field and every synonym of it named in the data model are
\* absent from the input, and line_items is the empty sequence when absent; an
\* input without invoice_number yields an output without invoice_number.
C20_AbsencePropagates ==
    pc = "normalize_invoice" =>
        /\ Absent(fields, {"invoice_number"}) => Get(invoice, "invoice_number") = None
        /\ Absent(fields, {"seller_name", "supplier_name"})
              => Get(invoice, "seller_name") = None /\ Get(invoice, "supplier_name") = None
        /\ Absent(fields, {"buyer_name"}) => Get(invoice, "buyer_name") = None
        /\ Absent(fields, {"supplier_tax_id", "seller_tax_id"})
              => Get(invoice, "supplier_tax_id") = None /\ Get(invoice, "seller_tax_id") = None
        /\ Absent(fields, {"net_total", "subtotal"})
              => Get(invoice, "net_total") = None /\ Get(invoice, "subtotal") = None
        /\ Absent(fields, {"tax_amount"}) => Get(invoice, "tax_amount") = None
        /\ Absent(fields, {"gross_total", "total_amount"})
              => Get(invoice, "gross_total") = None /\ Get(invoice, "total_amount") = None
        /\ \A k \in {"invoice_date", "due_date", "buyer_tax_id", "currency"} :
              Absent(fields, {k}) => Get(invoice, k) = None
        /\ Absent(fields, {"line_items"}) => Get(invoice, "line_items") = Some(<<>>)

\* C20, amended: normalize_invoice returns a record, in which a canonical field
\* is None when that field and every key the normalizer reads for it
\* (invoice_id for invoice_number; supplier_name and seller for seller_name;
\* buyer for buyer_name; seller_tax_id for supplier_tax_id; subtotal and net for
\* net_total; tax for tax_amount; total_amount and amount_due for gross_total)
\* are absent from the input, and line_items is the empty sequence when absent;
\* an input with neither invoice_number nor invoice_id yields an output without
\* invoice_number.
C20_AbsencePropagatesAmended ==
    pc = "normalize_invoice" =>
        /\ Absent(fields, {"invoice_number", "invoice_id"})
              => Get(invoice, "invoice_number") = None
        /\ Absent(fields, {"seller_name", "supplier_name", "seller"})
              => Get(invoice, "seller_name") = None /\ Get(invoice, "supplier_name") = None
        /\ Absent(fields, {"buyer_name", "buyer"}) => Get(invoice, "buyer_name") = None
        /\ Absent(fields, {"supplier_tax_id", "seller_tax_id"})
              => Get(invoice, "supplier_tax_id") = None /\ Get(invoice, "seller_tax_id") = None
        /\ Absent(fields, {"net_total", "subtotal", "net"})
              => Get(invoice, "net_total") = None /\ Get(invoice, "subtotal") = None
        /\ Absent(fields, {"tax_amount", "tax"}) => Get(invoice, "tax_amount") = None
        /\ Absent(fields, {"gross_total", "total_amount", "amount_due"})
              => Get(invoice, "gross_total") = None /\ Get(invoice, "total_amount") = None
        /\ \A k \in {"invoice_date", "due_date", "buyer_tax_id", "currency"} :
              Absent(fields, {k}) => Get(invoice, k) = None
        /\ Absent(fields, {"line_items"}) => Get(invoice, "line_items") = Some(<<>>)

\* the input with no fields has been normalized
C20_Witness ==
    /\ pc = "normalize_invoice"
    /\ DOMAIN fields = {}
    /\ Get(invoice, "invoice_number") = None
    /\ Get(invoice, "line_items") = Some(<<>>)

---------------------------------------------------------------------------
(* The generated invoice_id *)

Whitespace == {" ", "\t", "\n"}

\* the name upper-cased, every run of whitespace as one underscore, every other
\* character that is not alphanumeric, hyphen or underscore as an underscore
StatedName(name) ==
    LET kept == {i \in 1..Len(name) :
                    ~(name[i] \in Whitespace /\ i > 1 /\ name[i - 1] \in Whitespace)}
        Nth(n) == CHOOSE i \in kept : Cardinality({j \in kept : j <= i}) = n
    IN  [n \in 1..Cardinality(kept) |->
            LET c == UpperChar(name[Nth(n)])
            IN  IF IsAlnum(c) \/ c \in {"-", "_"} THEN c ELSE "_"]

\* the stated id of a record without invoice_id
StatedId(inv) ==
    LET name == FirstFilled(Get(inv, "supplier_name"), Get(inv, "seller_name"), None)
        invoice_number == Get(inv, "invoice_number")
        invoice_date == Get(inv, "invoice_date")
    IN  (IF Empty(name) \/ name = Some(<<>>) THEN UNKNOWN ELSE StatedName(name[1]))
        \o <<"_", IF Empty(invoice_number) THEN "UNKNOWN" ELSE invoice_number[1],
             "_", IF Empty(invoice_date) THEN "UNKNOWN" ELSE invoice_date[1]>>

\* C21: the invoice_id validate_invoice returns is the record's invoice_id when
\* it has one, and otherwise N_number_date, where N is the supplier/seller name
\* upper-cased, with every run of whitespace collapsed to one underscore and
\* every other character that is not alphanumeric, hyphen or underscore
\* replaced by an underscore, and a missing component is UNKNOWN.
C21_InvoiceId ==
    InvoiceReturned =>
        IF ~Empty(Get(invoice, "invoice_id"))
        THEN result.invoice_id = <<Get(invoice, "invoice_id")[1]>>
        ELSE result.invoice_id = StatedId(invoice)

---------------------------------------------------------------------------
(* Relations between results *)

Distinct(errors) == \A j, k \in 1..Len(errors) : errors[j] = errors[k] => j = k

\* C23: no token occurs twice in one errors list: the errors of validate_invoice
\* are pairwise distinct, and so are the errors of every per_invoice entry of
\* validate_batch, anomaly:duplicate_invoice included, also when three or more
\* records share the record's key.
C23_NoTokenTwice ==
    /\ InvoiceReturned => Distinct(result.errors)
    /\ BatchReturned =>
          \A i \in 1..Len(invoices) :
              /\ Distinct(result.per_invoice[i].errors)
              /\ Occurrences(result.per_invoice[i].errors, DUPLICATE) <= 1

\* three records share one key and the first carries the flag once
C23_Witness ==
    /\ BatchReturned
    /\ Len(invoices) >= 3
    /\ StatedKey(invoices[1]) = StatedKey(invoices[2])
    /\ StatedKey(invoices[1]) = StatedKey(invoices[3])
    /\ Occurrences(result.per_invoice[1].errors, DUPLICATE) = 1

\* the batch without its last record
Front(invs) == SubSeq(invs, 1, Len(invs) - 1)

\* the records of the front that share the key of the last record
SharingLast(invs) ==
    {i \in 1..(Len(invs) - 1) :
        /\ ~Empty(Get(invs[i], "invoice_number"))
        /\ ~Empty(Get(invs[Len(invs)], "invoice_number"))
        /\ StatedKey(invs[i]) = StatedKey(invs[Len(invs)])}

\* C29: for a batch B and a record r, every entry i < len(B) of
\* validate_batch(B + [r]) has the invoice_id it has in validate_batch(B) and
\* errors that are those of validate_batch(B), or those with
\* anomaly:duplicate_invoice appended; valid_count drops by at most the number
\* of records of B that share r's key, and duplicate_groups grows by at most 1.
C29_ExtensionMonotone ==
    (BatchReturned /\ Len(invoices) >= 1) =>
        LET before == validate_batch(Front(invoices))
        IN  /\ \A i \in 1..(Len(invoices) - 1) :
                  LET old == before.per_invoice[i]
                      new == result.per_invoice[i]
                  IN  /\ new.invoice_id = old.invoice_id
                      /\ \/ new.errors = old.errors
                         \/ new.errors = Append(old.errors, DUPLICATE)
            /\ before.summary.valid_count - result.summary.valid_count
                  <= Cardinality(SharingLast(invoices))
            /\ result.summary.duplicate_groups <= before.summary.duplicate_groups + 1

\* the last record makes a group with the first, which had no flag before
C29_Witness ==
    /\ BatchReturned
    /\ Len(invoices) >= 2
    /\ 1 \in SharingLast(invoices)
    /\ ~HasToken(validate_batch(Front(invoices)).per_invoice[1].errors, DUPLICATE)
    /\ HasToken(result.per_invoice[1].errors, DUPLICATE)
    /\ result.summary.duplicate_groups
          = validate_batch(Front(invoices)).summary.duplicate_groups + 1

Reorderings(n) == {f \in [1..n -> 1..n] : \A i, j \in 1..n : f[i] = f[j] => i = j}

Permuted(s, f) == [i \in 1..Len(s) |-> s[f[i]]]

\* C30: for every batch and every permutation of it, validate_batch of the
\* permuted batch has the same summary and the per_invoice sequence permuted
\* the same way.
C30_OrderInvariant ==
    BatchReturned =>
        \A f \in Reorderings(Len(invoices)) :
            LET permuted == validate_batch(Permuted(invoices, f))
            IN  /\ permuted.summary = result.summary
                /\ permuted.per_invoice = Permuted(result.per_invoice, f)

\* a group of two with another record between its members
C30_Witness ==
    /\ BatchReturned
    /\ Len(invoices) = 3
    /\ HasToken(result.per_invoice[1].errors, DUPLICATE)
    /\ ~HasToken(result.per_invoice[2].errors, DUPLICATE)
    /\ HasToken(result.per_invoice[3].errors, DUPLICATE)

---------------------------------------------------------------------------
(* The pipelines *)

Returned(r) == "exception" \notin DOMAIN r

\* the records of the files whose extraction succeeded, in upload order
SucceededRecords(fs) == SelectSeq([i \in 1..Len(fs) |-> extract_invoice(fs[i])], Returned)

\* the request passes the checks the API makes before it extracts
Accepted(fs) ==
    /\ fs # <<>>
    /\ \A i \in 1..Len(fs) : EndsWithPdf(fs[i].name) /\ fs[i].size <= MAX_UPLOAD_SIZE

\* C24: when extraction fails for some of the uploaded files, the API
\* (extract_and_validate_pdfs, on a request it accepts) and the UI
\* (process_files_locally) return a response whose validation is the complete
\* result for the files whose extraction succeeded: one entry per such file,
\* that of validate_batch on their records.
C24_PartialBatch ==
    (\/ pc = "process_files_locally"
     \/ pc = "extract_and_validate_pdfs" /\ Accepted(files)) =>
        /\ "validation" \in DOMAIN result
        /\ Len(result.validation.per_invoice) = Len(SucceededRecords(files))
        /\ result.validation = validate_batch(SucceededRecords(files))
        /\ Len(result.extracted) = Len(files)

\* the extraction of the first of three files fails and the other two succeed
C24_Witness ==
    /\ pc = "extract_and_validate_pdfs"
    /\ Len(files) = 3
    /\ ~Returned(extract_invoice(files[1]))
    /\ Returned(extract_invoice(files[2]))
    /\ Returned(extract_invoice(files[3]))
    /\ "validation" \in DOMAIN result
    /\ Len(result.validation.per_invoice) = 2

\* C26: after process_files_locally and the merge of the UI, for each index i
\* of validation.per_invoice, extracted[i] is the record validate_batch received
\* at position i, and the merged entry holds the fields of that record.
C26_MergeByIndex ==
    pc = "main" =>
        \A i \in 1..Len(result.validation.per_invoice) :
            /\ result.extracted[i] = invoices[i]
            /\ merged[i] = MergeDicts(invoices[i], result.validation.per_invoice[i])

CanonicalKeys ==
    {"invoice_number", "invoice_date", "due_date", "seller_name", "supplier_name",
     "buyer_name", "supplier_tax_id", "seller_tax_id", "buyer_tax_id", "currency",
     "net_total", "subtotal", "tax_amount", "gross_total", "total_amount", "line_items"}

\* C28: when regex_patterns.extract_all_fields raises during extract_invoice on
\* a file that can be read, extract_invoice does not raise: it returns a
\* normalized record with the canonical keys.
C28_RegexFallback ==
    (pc = "extract_invoice" /\ files[1].readable /\ files[1].regex_raises) =>
        /\ Returned(result)
        /\ CanonicalKeys \subseteq DOMAIN result

---------------------------------------------------------------------------
(* The command line *)

\* C27: when cli.py validate has exited on an input file that holds a JSON
\* list, the report file holds the whole result of validate_batch on that list
\* and the exit code is 1 exactly when summary.invalid_count > 0 and 0
\* otherwise; on an input that is missing, is not JSON or is not a list, no
\* report is written and the exit code is 1.
C27_CliValidate ==
    pc = "exit" /\ cli # None =>
        IF cli.input.kind = "list"
        THEN /\ cli.report # None
             /\ "summary" \in DOMAIN cli.report[1]
             /\ cli.report[1] = validate_batch(cli.input.value)
             /\ cli.exit_code = IF cli.report[1].summary.invalid_count > 0
                                THEN Some(1) ELSE Some(0)
        ELSE /\ cli.report = None
             /\ cli.exit_code = Some(1)

---------------------------------------------------------------------------
(* Objects and concurrent calls *)

\* the result dicts allocated so far
ResultDicts == {a \in 1..Len(heap) : heap[a].site = "result"}

\* the list and the records that caller c passed are the objects it passed,
\* with the keys and values they had when the call was made
InputAsGiven(c) ==
    LET call == calls[c]
        list == heap[call.invoices]
    IN  /\ list.site = "input"
        /\ Len(list.value) = Len(call.given)
        /\ \A i \in 1..Len(list.value) :
              /\ heap[list.value[i]].site = "input"
              /\ heap[list.value[i]].value = call.given[i]

\* C22: at every step of a call of normalize_invoice, validate_invoice or
\* validate_batch, and so after it, the input list holds the same records and
\* every input record the same keys and values as when the call was made; the
\* errors list of every result is a list created by validate_invoice, not an
\* object of the input, no two results share their errors list, and the dict
\* normalize_invoice returns is a new one.
C22_InputUnchanged ==
    /\ \A c \in Callers : InputAsGiven(c)
    /\ \A r \in ResultDicts : heap[heap[r].value["errors"]].site = "errors"
    /\ \A r1, r2 \in ResultDicts :
          r1 # r2 => heap[r1].value["errors"] # heap[r2].value["errors"]
    /\ \A c \in Callers :
          (calls[c].fn = "normalize_invoice" /\ calls[c].pc = "return") =>
              heap[calls[c].returned].site = "out"

\* validate_batch has returned two flagged results to caller 1, and
\* normalize_invoice has returned to caller 2
C22_Witness ==
    /\ calls[1].pc = "return"
    /\ Len(calls[1].returned.per_invoice) = 2
    /\ \A i \in 1..2 :
          HasToken(ResultValue(heap, calls[1].returned.per_invoice[i]).errors, DUPLICATE)
    /\ calls[2].fn = "normalize_invoice"
    /\ calls[2].pc = "return"

\* what the call of caller c returns when nothing else runs
Alone(c) == validate_batch(calls[c].given)

\* the outcome of a finished call of validate_batch is the outcome of the
\* call run alone
SameAsAlone(c) ==
    /\ calls[c].pc = "raised" => "exception" \in DOMAIN Alone(c)
    /\ calls[c].pc = "return" =>
          /\ "exception" \notin DOMAIN Alone(c)
          /\ PerInvoiceValue(heap, calls[c].returned.per_invoice) = Alone(c).per_invoice
          /\ calls[c].returned.summary = Alone(c).summary

\* a step in which caller c does not move leaves the objects of c as they are
LeavesOthersAlone ==
    \A c \in Callers :
        calls'[c] = calls[c] =>
            \A a \in 1..Len(heap) : heap[a].owner = c => heap'[a] = heap[a]

\* C25: under every interleaving of the steps of two calls on batches that
\* share no object, a call of validate_batch that has finished has the outcome
\* (the per_invoice entries with their errors, the summary, or the exception)
\* of the same call run alone, and stays so while the other call goes on; no
\* step of one call changes an object of the other.
C25_Concurrent ==
    /\ [](\A c \in Callers : calls[c].fn = "validate_batch" => SameAsAlone(c))
    /\ [][LeavesOthersAlone]_vars

\* both calls of validate_batch have returned, each with two results, and the
\* second caller created a result between the two of the first
C25_Witness ==
    /\ \A c \in Callers :
          /\ calls[c].fn = "validate_batch"
          /\ calls[c].pc = "return"
          /\ Len(calls[c].returned.per_invoice) = 2
    /\ \E q \in 1..2 :
          /\ calls[1].returned.per_invoice[1] < calls[2].returned.per_invoice[q]
          /\ calls[2].returned.per_invoice[q] < calls[1].returned.per_invoice[2]
    /\ HasToken(ResultValue(heap, calls[2].returned.per_invoice[1]).errors, DUPLICATE)

=============================================================================
